---- MODULE Spec2Model ----
(***************************************************************************)
(* The record store of regieleki (store.go): the in-memory record list,    *)
(* its domain index, the next-id counter and the tab-separated file the    *)
(* store persists to, with Add, Update, Delete, Resolve, List and the      *)
(* reload performed by NewStore.                                           *)
(*                                                                         *)
(* Strings are sequences of one-character strings, so that formatting a    *)
(* record to a line and parsing a line back are computed character by      *)
(* character, as save and load do.                                         *)
(***************************************************************************)
EXTENDS Integers, Sequences, FiniteSets, TLC

VARIABLES
    records,   \* Store.records: the ordered record list
    nextID,    \* Store.nextID
    index,     \* Store.index: lower-cased domain -> records of that domain
    file,      \* the file at Store.path: [exists, data]
    last,      \* the last call on the store: operation, arguments, results
    maxSeen,   \* history: the largest id the store ever loaded or assigned
    failures,  \* history: how many saves in a row have failed in this store
    saving,    \* the save in progress, step by step: [pc, call, before]
    tmp,       \* the temporary file of the latest save: [exists, data]
    upstreams, \* DNSServer.upstreams: the upstream servers, in order
    sem,       \* DNSServer.sem: how many slots of the semaphore are held
    loop,      \* where the accept loop of ListenAndServe stands
    queries,   \* the datagrams read so far, in order, each with the state
               \* of its handler and what the handler has done
    listener,  \* DNSServer.conn and DNSServer.ready, with the calls of
               \* Close and the result of ListenAndServe
    wire,      \* the latest call of a function of the wire format, with
               \* its arguments and what it returned
    web,       \* the latest request the web server handled, with the
               \* handler it reached and the status it was answered with
    mu,        \* Store.mu: whether a writer holds it and how many readers
    tasks      \* the goroutines that call the store concurrently, each
               \* with the call it makes, where it stands and what it saw

storeVars == <<records, nextID, index, file, last, maxSeen, failures>>

saveVars == <<saving, tmp>>

dnsVars == <<upstreams, sem, loop, queries, listener>>

lockVars == <<mu, tasks>>

vars == <<storeVars, saveVars, dnsVars, wire, web, lockVars>>

----------------------------------------------------------------------------
(* Bounds of the model *)

\* Add is not taken once the store holds this many records.
MaxRecords == 2
\* Add is not taken once the next id exceeds this.
MaxID == 3
\* At most this many saves in a row fail.
MaxSaveFailures == 1
\* In the step-by-step runs, Add is not taken once the store holds this many
\* records, nor once the next id exceeds MaxStepID.
MaxStepRecords == 1
MaxStepID == 2

----------------------------------------------------------------------------
(* Characters and strings *)

TAB == "\t"
NL == "\n"
CR == "\r"

UpperCase == <<"A","B","C","D","E","F","G","H","I","J","K","L","M",
               "N","O","P","Q","R","S","T","U","V","W","X","Y","Z">>
LowerCase == <<"a","b","c","d","e","f","g","h","i","j","k","l","m",
               "n","o","p","q","r","s","t","u","v","w","x","y","z">>
Digits == <<"0","1","2","3","4","5","6","7","8","9">>

\* unicode.ToLower and unicode.ToUpper on the letters of the model
LowerOf ==
    [c \in {UpperCase[i] : i \in 1..Len(UpperCase)} |->
        LowerCase[CHOOSE i \in 1..Len(UpperCase) : UpperCase[i] = c]]

UpperOf ==
    [c \in {LowerCase[i] : i \in 1..Len(LowerCase)} |->
        UpperCase[CHOOSE i \in 1..Len(LowerCase) : LowerCase[i] = c]]

ToLowerCh(c) == IF c \in DOMAIN LowerOf THEN LowerOf[c] ELSE c

ToUpperCh(c) == IF c \in DOMAIN UpperOf THEN UpperOf[c] ELSE c

\* strings.ToLower
ToLower(s) == [i \in 1..Len(s) |-> ToLowerCh(s[i])]

\* strings.ToUpper
ToUpper(s) == [i \in 1..Len(s) |-> ToUpperCh(s[i])]

\* strings.TrimRight(s, c) for a one-character cutset
RECURSIVE TrimRight(_, _)
TrimRight(s, c) ==
    IF Len(s) > 0 /\ s[Len(s)] = c
    THEN TrimRight(SubSeq(s, 1, Len(s) - 1), c)
    ELSE s

\* The parts of s from position i on, the first of them after cur: one
\* turn takes the characters up to the next separator.
RECURSIVE SplitFrom(_, _, _, _)
SplitFrom(s, sep, i, cur) ==
    LET seps == {j \in i..Len(s) : s[j] = sep}
    IN IF seps = {} THEN <<cur \o SubSeq(s, i, Len(s))>>
       ELSE LET next == CHOOSE j \in seps : \A k \in seps : j <= k
            IN <<cur \o SubSeq(s, i, next - 1)>>
                   \o SplitFrom(s, sep, next + 1, <<>>)

\* strings.Split(s, sep) for a one-character separator: Split("", sep) is
\* the one-element list holding the empty string.
Split(s, sep) == SplitFrom(s, sep, 1, <<>>)

DigitValue(c) == (CHOOSE i \in 1..10 : Digits[i] = c) - 1

IsDigit(c) == \E i \in 1..10 : Digits[i] = c

RECURSIVE DigitsValue(_)
DigitsValue(s) ==
    IF Len(s) = 0 THEN 0
    ELSE 10 * DigitsValue(SubSeq(s, 1, Len(s) - 1)) + DigitValue(s[Len(s)])

\* strconv.Atoi: an optional sign, then one or more decimal digits.
Atoi(s) ==
    LET signed == Len(s) > 0 /\ s[1] \in {"-", "+"}
        body == IF signed THEN Tail(s) ELSE s
    IN IF Len(body) = 0 \/ \E i \in 1..Len(body) : ~IsDigit(body[i])
       THEN [ok |-> FALSE, val |-> 0]
       ELSE [ok |-> TRUE,
             val |-> IF signed /\ s[1] = "-" THEN 0 - DigitsValue(body)
                     ELSE DigitsValue(body)]

RECURSIVE NatDigits(_)
NatDigits(n) ==
    IF n < 10 THEN <<Digits[n + 1]>>
    ELSE Append(NatDigits(n \div 10), Digits[(n % 10) + 1])

\* strconv.Itoa
Itoa(n) == IF n < 0 THEN <<"-">> \o NatDigits(0 - n) ELSE NatDigits(n)

----------------------------------------------------------------------------
(* Records, the file format and the index *)

Rec(id, domain, type, value) ==
    [ID |-> id, Domain |-> domain, Type |-> type, Value |-> value]

\* Record{}: the zero value Update returns with the not-found error.
NoRecord == Rec(0, <<>>, <<>>, <<>>)

TypeA == <<"A">>
TypeAAAA == <<"A","A","A","A">>
TypeCNAME == <<"C","N","A","M","E">>

\* The error values of the store: nil, the os.ErrNotExist sentinel that
\* Update and Delete return for an unknown id, and the errors save returns
\* from CreateTemp, WriteString, Close or Rename.  ENOENT stands for a
\* *PathError wrapping ENOENT (the directory of the file is gone), EIO for
\* one wrapping any other errno.
ErrNil == "nil"
ErrNotExist == "os.ErrNotExist"
SaveErrors == {"PathError{ENOENT}", "PathError{EIO}"}

\* errors.Is(err, os.ErrNotExist), the test of handleUpdate and handleDelete
IsNotExist(err) == err \in {ErrNotExist, "PathError{ENOENT}"}

\* The line save writes for one record.
FormatLine(r) ==
    Itoa(r.ID) \o <<TAB>> \o r.Domain \o <<TAB>> \o r.Type \o <<TAB>>
        \o r.Value \o <<NL>>

\* The buffer save builds from the record list.
RECURSIVE saveBuffer(_)
saveBuffer(recs) ==
    IF Len(recs) = 0 THEN <<>>
    ELSE FormatLine(Head(recs)) \o saveBuffer(Tail(recs))

IndexGet(idx, key) == IF key \in DOMAIN idx THEN idx[key] ELSE <<>>

EmptyIndex == [k \in {} |-> <<>>]

RECURSIVE IndexFrom(_, _)
IndexFrom(recs, idx) ==
    IF Len(recs) = 0 THEN idx
    ELSE LET r == Head(recs)
             key == ToLower(r.Domain)
         IN IndexFrom(Tail(recs),
                [k \in DOMAIN idx \cup {key} |->
                    IF k = key THEN Append(IndexGet(idx, key), r) ELSE idx[k]])

\* Store.rebuildIndex
rebuildIndex(recs) == IndexFrom(recs, EmptyIndex)

\* One line of the file, as the loop body of load treats it: kept with its
\* record, or skipped.
ParseLine(rawLine) ==
    LET line == TrimRight(rawLine, CR)
        fields == Split(line, TAB)
        id == Atoi(fields[1])
    IN IF line = <<>> THEN [ok |-> FALSE, rec |-> NoRecord]
       ELSE IF Len(fields) # 4 THEN [ok |-> FALSE, rec |-> NoRecord]
       ELSE IF ~id.ok THEN [ok |-> FALSE, rec |-> NoRecord]
       ELSE IF fields[3] \notin {TypeA, TypeAAAA, TypeCNAME}
            THEN [ok |-> FALSE, rec |-> NoRecord]
       ELSE [ok |-> TRUE, rec |-> Rec(id.val, fields[2], fields[3], fields[4])]

RECURSIVE LoadLines(_, _, _)
LoadLines(lines, recs, maxID) ==
    IF Len(lines) = 0 THEN [records |-> recs, maxID |-> maxID]
    ELSE LET p == ParseLine(Head(lines))
         IN IF p.ok
            THEN LoadLines(Tail(lines), Append(recs, p.rec),
                           IF p.rec.ID > maxID THEN p.rec.ID ELSE maxID)
            ELSE LoadLines(Tail(lines), recs, maxID)

\* Store.load on a store fresh from NewStore: the records, the next id and
\* the index it leaves.  (A read error other than a missing file makes
\* NewStore fail, and no store exists; the model covers the other reads.)
load(f) ==
    IF ~f.exists \/ Len(f.data) = 0
    THEN [records |-> <<>>, nextID |-> 1, index |-> EmptyIndex]
    ELSE LET got == LoadLines(Split(TrimRight(f.data, NL), NL), <<>>, 0)
         IN [records |-> got.records, nextID |-> got.maxID + 1,
             index |-> rebuildIndex(got.records)]

\* Store.List
List == records

\* matchType with the AAAA case testing for "A"
matchTypeSameForBoth(rtype, qtype) ==
    CASE qtype = 1 -> rtype = TypeA
      [] qtype = 28 -> rtype = TypeA
      [] qtype = 5 -> rtype = TypeCNAME
      [] OTHER -> FALSE

matchType(rtype, qtype) ==
    CASE qtype = 1 -> rtype = TypeA
      [] qtype = 28 -> rtype = TypeAAAA
      [] qtype = 5 -> rtype = TypeCNAME
      [] OTHER -> FALSE

\* The fallback loop without its break: every CNAME of the domain
EveryCNAME(all) == SelectSeq(all, LAMBDA r : r.Type = TypeCNAME)

\* The fallback loop of Resolve: the first CNAME record, if any
RECURSIVE FirstCNAME(_)
FirstCNAME(all) ==
    IF Len(all) = 0 THEN <<>>
    ELSE IF Head(all).Type = TypeCNAME THEN <<Head(all)>>
    ELSE FirstCNAME(Tail(all))

\* Resolve reporting authoritative only when it returns records
ResolveInAuthIfAnswered(idx, domain, qtype) ==
    LET key == ToLower(domain)
        all == IndexGet(idx, key)
        result == SelectSeq(all, LAMBDA r : matchType(r.Type, qtype))
        recs == IF qtype = 255 THEN all
                ELSE IF Len(result) = 0 THEN FirstCNAME(all)
                ELSE result
    IN [recs |-> recs, auth |-> Len(recs) > 0]

\* Store.Resolve on the index idx: the records returned and the
\* authoritative flag.
ResolveIn(idx, domain, qtype) ==
    LET key == ToLower(domain)
        all == IndexGet(idx, key)
        result == SelectSeq(all, LAMBDA r : matchType(r.Type, qtype))
    IN IF Len(all) = 0 THEN [recs |-> <<>>, auth |-> FALSE]
       ELSE IF qtype = 255 THEN [recs |-> all, auth |-> TRUE]
       ELSE IF Len(result) = 0 THEN [recs |-> FirstCNAME(all), auth |-> TRUE]
       ELSE [recs |-> result, auth |-> TRUE]

Resolve(domain, qtype) == ResolveIn(index, domain, qtype)

----------------------------------------------------------------------------
(* Inputs *)

\* Domain names handed to Add and Update.
Domains == { <<"a">>, <<"B">> }

\* Type strings handed to Add and Update, in the cases the HTTP layer and
\* direct callers of the store use.
Types == { <<"A">>, <<"a","a","a","a">>, <<"C","N","A","M","E">> }

Values == { <<"1">> }

\* Records of plain fields handed to Add and Update.
PlainRecords ==
    { Rec(0, d, t, v) : d \in Domains, t \in Types, v \in Values }

\* The records handed to Add and Update.  The HTTP layer only trims the
\* domain and requires it non-empty, so a domain with a tab inside reaches
\* the store.
InputRecords ==
    PlainRecords \cup { Rec(0, <<"a", TAB, "b">>, <<"A">>, <<"2">>) }

\* The two records handed to Add and Update in the runs where saves may
\* fail; the store normalises the case of both.
FewRecords ==
    { Rec(0, <<"a">>, <<"A">>, <<"1">>),
      Rec(0, <<"B">>, <<"c","n","a","m","e">>, <<"1">>) }

\* Ids handed to Update and Delete.
InputIDs == 1..MaxID

\* Domains and query types handed to Resolve.
QueryDomains == { <<"a">>, <<"A">>, <<"b">>, <<"B">>, <<"a", TAB, "b">>, <<"c">> }
QueryTypes == {1, 5, 28, 255, 15}

Line(id, domain, type, value) ==
    id \o <<TAB>> \o domain \o <<TAB>> \o type \o <<TAB>> \o value \o <<NL>>

\* Files found at Store.path when the process starts: none, an empty one,
\* and hand-edited ones: one with malformed lines, a CR LF line end, an
\* upper-case domain and ids out of order, one with a repeated negative id.
InitFiles ==
    { [exists |-> FALSE, data |-> <<>>],
      [exists |-> TRUE, data |-> <<>>],
      [exists |-> TRUE,
       data |-> Line(<<"2">>, <<"a">>, TypeA, <<"1">>)
                \o <<"b","a","d",NL>>
                \o <<NL>>
                \o Line(<<"x">>, <<"a">>, TypeA, <<"1">>)
                \o Line(<<"3">>, <<"b">>, <<"M","X">>, <<"1">>)
                \o Line(<<"1">>, <<"B">>, TypeCNAME, <<"2", CR>>)],
      [exists |-> TRUE,
       data |-> Line(<<"-","1">>, <<"a">>, TypeA, <<"1">>)
                \o Line(<<"-","1">>, <<"b">>, TypeCNAME, <<"2">>)] }

----------------------------------------------------------------------------
(* The store *)

\* The maxID loop of load: the largest of m and the ids of recs.
RECURSIVE MaxOf(_, _)
MaxOf(recs, m) ==
    IF Len(recs) = 0 THEN m
    ELSE MaxOf(Tail(recs), IF Head(recs).ID > m THEN Head(recs).ID ELSE m)

\* Some record has the id: the range loop of Update and Delete finds one.
HasID(recs, id) == \E i \in 1..Len(recs) : recs[i].ID = id

\* The position the range loops of Update and Delete stop at: the first
\* record with the id.
IndexOfID(recs, id) ==
    CHOOSE i \in 1..Len(recs) :
        recs[i].ID = id /\ \A j \in 1..(i - 1) : recs[j].ID # id

\* What a call was and what it returned: the operation, the id it was given
\* (Update, Delete), the record it returned (Add, Update) and its error.
Call(op, id, ret, err) == [op |-> op, id |-> id, ret |-> ret, err |-> err]

\* No file at a path.
NoFile == [exists |-> FALSE, data |-> <<>>]

\* No save is in progress: no call holds the lock of the store.
Idle == [pc |-> "idle", call |-> Call("", 0, NoRecord, ErrNil),
         before |-> NoFile]

\* No function of the wire format has been called.
NoCall == [op |-> "none"]

\* The web server has handled no request.
NoRequest == [token |-> <<>>, handler |-> "none", n |-> 0]

\* Store.mu of a store no goroutine is using.
Unlocked == [writer |-> FALSE, readers |-> 0]

\* The error of a read on a socket that has been closed.
ErrClosed == "use of closed network connection"

\* The server before ListenAndServe: conn is nil and ready is open.  ready
\* counts the times the readiness signal fired; closeCalled, result (of
\* ListenAndServe) and observed (what a goroutine that waited for ready
\* then read in conn) are history.
NotListening ==
    [conn |-> "nil", ready |-> 0, closeCalled |-> FALSE, result |-> "none",
     observed |-> "waiting"]

\* The server in its accept loop: the socket is bound and ready is closed.
Listening == [NotListening EXCEPT !.conn = "open", !.ready = 1]

\* NewStore(path) at process start
Init ==
    \E f \in InitFiles :
        LET s == load(f)
        IN /\ file = f
           /\ records = s.records
           /\ nextID = s.nextID
           /\ index = s.index
           /\ last = Call("NewStore", 0, NoRecord, ErrNil)
           /\ maxSeen = MaxOf(s.records, 0)
           /\ failures = 0
           /\ saving = Idle
           /\ tmp = NoFile
           /\ upstreams = <<>>
           /\ sem = 0
           /\ loop = "read"
           /\ queries = <<>>
           /\ listener = Listening
           /\ wire = NoCall
           /\ web = NoRequest
           /\ mu = Unlocked
           /\ tasks = <<>>

\* The process restarts: the store is discarded and NewStore loads the file.
NewStore ==
    LET s == load(file)
    IN /\ records' = s.records
       /\ nextID' = s.nextID
       /\ index' = s.index
       /\ last' = Call("NewStore", 0, NoRecord, ErrNil)
       /\ maxSeen' = MaxOf(s.records, maxSeen)
       /\ failures' = 0
       /\ UNCHANGED file

\* save writing the file in place: a failed save leaves it truncated
saveInPlace(err) ==
    /\ err # ErrNil => failures < MaxSaveFailures
    /\ file' = [exists |-> TRUE,
                data |-> IF err = ErrNil THEN saveBuffer(records') ELSE <<>>]
    /\ failures' = IF err = ErrNil THEN 0 ELSE failures + 1

\* Store.save of the new record list, ending with err: the temporary file
\* is renamed over the file, or the file is left as it was.
save(err) ==
    /\ err # ErrNil => failures < MaxSaveFailures
    /\ file' = IF err = ErrNil
               THEN [exists |-> TRUE, data |-> saveBuffer(records')]
               ELSE file
    /\ failures' = IF err = ErrNil THEN 0 ELSE failures + 1

\* Add taking the id from the records stored instead of the counter
AddAfterMaxStored(r, err) ==
    LET rec == Rec(MaxOf(records, 0) + 1, ToLower(r.Domain), ToUpper(r.Type),
                   r.Value)
    IN /\ Len(records) < MaxRecords
       /\ nextID <= MaxID
       /\ nextID' = rec.ID + 1
       /\ records' = Append(records, rec)
       /\ index' = rebuildIndex(records')
       /\ save(err)
       /\ last' = Call("Add", 0, rec, err)
       /\ maxSeen' = IF rec.ID > maxSeen THEN rec.ID ELSE maxSeen

\* Add taking the id back when its save fails
AddTakingIdBack(r, err) ==
    LET rec == Rec(nextID, ToLower(r.Domain), ToUpper(r.Type), r.Value)
    IN /\ Len(records) < MaxRecords
       /\ nextID <= MaxID
       /\ nextID' = IF err = ErrNil THEN nextID + 1 ELSE nextID
       /\ records' = Append(records, rec)
       /\ index' = rebuildIndex(records')
       /\ save(err)
       /\ last' = Call("Add", 0, rec, err)
       /\ maxSeen' = IF nextID > maxSeen THEN nextID ELSE maxSeen

\* Store.Add(r), whose save ends with err.  (The two bounds stop the runs.)
Add(r, err) ==
    LET rec == Rec(nextID, ToLower(r.Domain), ToUpper(r.Type), r.Value)
    IN /\ Len(records) < MaxRecords
       /\ nextID <= MaxID
       /\ nextID' = nextID + 1
       /\ records' = Append(records, rec)
       /\ index' = rebuildIndex(records')
       /\ save(err)
       /\ last' = Call("Add", 0, rec, err)
       /\ maxSeen' = IF nextID > maxSeen THEN nextID ELSE maxSeen

\* Update storing the record under the id when no record has it
UpdateOrInsert(id, r, err) ==
    LET rec == Rec(id, ToLower(r.Domain), ToUpper(r.Type), r.Value)
    IN /\ records' = IF HasID(records, id)
                     THEN [records EXCEPT ![IndexOfID(records, id)] = rec]
                     ELSE Append(records, rec)
       /\ index' = rebuildIndex(records')
       /\ save(err)
       /\ last' = Call("Update", id, rec, err)
       /\ UNCHANGED <<nextID, maxSeen>>

\* Store.Update(id, domain, rtype, value), whose save ends with err.  With
\* no record of the id nothing is saved, and err plays no part.
Update(id, r, err) ==
    IF HasID(records, id)
    THEN LET i == IndexOfID(records, id)
             rec == Rec(records[i].ID, ToLower(r.Domain), ToUpper(r.Type),
                        r.Value)
         IN /\ records' = [records EXCEPT ![i] = rec]
            /\ index' = rebuildIndex(records')
            /\ save(err)
            /\ last' = Call("Update", id, rec, err)
            /\ UNCHANGED <<nextID, maxSeen>>
    ELSE /\ err = ErrNil
         /\ last' = Call("Update", id, NoRecord, ErrNotExist)
         /\ UNCHANGED <<records, nextID, index, file, maxSeen, failures>>

\* Delete cutting the list at the record: append(s.records[:i]) alone
DeleteTruncating(id, err) ==
    IF HasID(records, id)
    THEN LET i == IndexOfID(records, id)
         IN /\ records' = SubSeq(records, 1, i - 1)
            /\ index' = rebuildIndex(records')
            /\ save(err)
            /\ last' = Call("Delete", id, NoRecord, err)
            /\ UNCHANGED <<nextID, maxSeen>>
    ELSE /\ err = ErrNil
         /\ last' = Call("Delete", id, NoRecord, ErrNotExist)
         /\ UNCHANGED <<records, nextID, index, file, maxSeen, failures>>

\* Store.Delete(id), whose save ends with err.  With no record of the id
\* nothing is saved, and err plays no part.
Delete(id, err) ==
    IF HasID(records, id)
    THEN LET i == IndexOfID(records, id)
         IN /\ records' = SubSeq(records, 1, i - 1)
                              \o SubSeq(records, i + 1, Len(records))
            /\ index' = rebuildIndex(records')
            /\ save(err)
            /\ last' = Call("Delete", id, NoRecord, err)
            /\ UNCHANGED <<nextID, maxSeen>>
    ELSE /\ err = ErrNil
         /\ last' = Call("Delete", id, NoRecord, ErrNotExist)
         /\ UNCHANGED <<records, nextID, index, file, maxSeen, failures>>

SaveResults == {ErrNil} \cup SaveErrors

\* One call on the store, with a record of inputs and a save ending in one
\* of results.
Step(inputs, results) ==
    \/ NewStore /\ UNCHANGED <<saveVars, dnsVars, wire, web, lockVars>>
    \/ \E r \in inputs, err \in results :
           Add(r, err) /\ UNCHANGED <<saveVars, dnsVars, wire, web, lockVars>>
    \/ \E id \in InputIDs, r \in inputs, err \in results :
           Update(id, r, err) /\ UNCHANGED <<saveVars, dnsVars, wire, web, lockVars>>
    \/ \E id \in InputIDs, err \in results :
           Delete(id, err) /\ UNCHANGED <<saveVars, dnsVars, wire, web, lockVars>>

\* The store under I/O failures: a save may fail, with few kinds of record.
Next == Step(FewRecords, SaveResults)

Spec == Init /\ [][Next]_vars

\* The store with every kind of record, and every save succeeding.
NextRecords == Step(InputRecords, {ErrNil})

SpecRecords == Init /\ [][NextRecords]_vars

\* The runs of the persistence tests: plain records, and every save succeeds.
NextSaved == Step(PlainRecords, {ErrNil})

SpecSaved == Init /\ [][NextSaved]_vars

----------------------------------------------------------------------------
(* Add, Update and Delete step by step: the change in memory under the    *)
(* lock of the store, then save one system call at a time, with a crash   *)
(* of the process possible between any two steps.                         *)

\* The call holding the lock moves on to the step pc of save.
AtStep(pc) == [saving EXCEPT !.pc = pc]

\* Add up to its call of save: the lock is taken and the record appended.
StartAdd(r) ==
    LET rec == Rec(nextID, ToLower(r.Domain), ToUpper(r.Type), r.Value)
    IN /\ saving.pc = "idle"
       /\ Len(records) < MaxStepRecords
       /\ nextID <= MaxStepID
       /\ nextID' = nextID + 1
       /\ records' = Append(records, rec)
       /\ index' = rebuildIndex(records')
       /\ maxSeen' = IF nextID > maxSeen THEN nextID ELSE maxSeen
       /\ saving' = [pc |-> "CreateTemp", call |-> Call("Add", 0, rec, ErrNil),
                     before |-> file]
       /\ tmp' = NoFile
       /\ UNCHANGED <<file, last, failures>>

\* Update up to its call of save, or returning not-found at once.
StartUpdate(id, r) ==
    /\ saving.pc = "idle"
    /\ IF HasID(records, id)
       THEN LET i == IndexOfID(records, id)
                rec == Rec(records[i].ID, ToLower(r.Domain), ToUpper(r.Type),
                           r.Value)
            IN /\ records' = [records EXCEPT ![i] = rec]
               /\ index' = rebuildIndex(records')
               /\ saving' = [pc |-> "CreateTemp",
                             call |-> Call("Update", id, rec, ErrNil),
                             before |-> file]
               /\ tmp' = NoFile
               /\ UNCHANGED <<nextID, maxSeen, file, last, failures>>
       ELSE /\ last' = Call("Update", id, NoRecord, ErrNotExist)
            /\ UNCHANGED <<records, nextID, index, file, maxSeen, failures,
                           saving, tmp>>

\* Delete up to its call of save, or returning not-found at once.
StartDelete(id) ==
    /\ saving.pc = "idle"
    /\ IF HasID(records, id)
       THEN LET i == IndexOfID(records, id)
            IN /\ records' = SubSeq(records, 1, i - 1)
                                 \o SubSeq(records, i + 1, Len(records))
               /\ index' = rebuildIndex(records')
               /\ saving' = [pc |-> "CreateTemp",
                             call |-> Call("Delete", id, NoRecord, ErrNil),
                             before |-> file]
               /\ tmp' = NoFile
               /\ UNCHANGED <<nextID, maxSeen, file, last, failures>>
       ELSE /\ last' = Call("Delete", id, NoRecord, ErrNotExist)
            /\ UNCHANGED <<records, nextID, index, file, maxSeen, failures,
                           saving, tmp>>

\* save returns err to Add, Update or Delete, which returns it to its
\* caller and releases the lock.
Return(err) ==
    /\ err # ErrNil => failures < MaxSaveFailures
    /\ last' = [saving.call EXCEPT !.err = err]
    /\ failures' = IF err = ErrNil THEN 0 ELSE failures + 1
    /\ saving' = Idle

\* os.CreateTemp(dir, ".regieleki-*.tmp")
saveCreateTemp(err) ==
    /\ saving.pc = "CreateTemp"
    /\ IF err = ErrNil
       THEN /\ tmp' = [exists |-> TRUE, data |-> <<>>]
            /\ saving' = AtStep("WriteString")
            /\ UNCHANGED <<last, failures>>
       ELSE /\ Return(err)
            /\ UNCHANGED tmp
    /\ UNCHANGED <<records, nextID, index, file, maxSeen>>

\* How many bytes of a buffer of n bytes are on disk after one write.
WriteSizes(n) == {n \div 2, n}

\* save writing the buffer to the file at Store.path itself
saveWriteInPlace(err) ==
    LET buf == saveBuffer(records)
    IN /\ saving.pc = "WriteString"
       /\ IF err = ErrNil
          THEN /\ \E n \in WriteSizes(Len(buf)) :
                      /\ n > Len(file.data) \/ n = Len(buf)
                      /\ file' = [exists |-> TRUE, data |-> SubSeq(buf, 1, n)]
                      /\ saving' = AtStep(IF n = Len(buf) THEN "Close"
                                          ELSE "WriteString")
               /\ UNCHANGED <<last, failures, tmp>>
          ELSE /\ tmp' = NoFile
               /\ Return(err)
               /\ UNCHANGED file
       /\ UNCHANGED <<records, nextID, index, maxSeen>>

\* tmp.WriteString(buf.String()): the bytes reach the temporary file in one
\* write or in two; on an error the file is closed and removed.
saveWriteString(err) ==
    LET buf == saveBuffer(records)
    IN /\ saving.pc = "WriteString"
       /\ IF err = ErrNil
          THEN /\ \E n \in WriteSizes(Len(buf)) :
                      /\ n > Len(tmp.data) \/ n = Len(buf)
                      /\ tmp' = [exists |-> TRUE, data |-> SubSeq(buf, 1, n)]
                      /\ saving' = AtStep(IF n = Len(buf) THEN "Close"
                                          ELSE "WriteString")
               /\ UNCHANGED <<last, failures>>
          ELSE /\ tmp' = NoFile
               /\ Return(err)
       /\ UNCHANGED <<records, nextID, index, file, maxSeen>>

\* tmp.Close(); on an error the temporary file is removed.
saveClose(err) ==
    /\ saving.pc = "Close"
    /\ IF err = ErrNil
       THEN /\ saving' = AtStep("Rename")
            /\ UNCHANGED <<last, failures, tmp>>
       ELSE /\ tmp' = NoFile
            /\ Return(err)
    /\ UNCHANGED <<records, nextID, index, file, maxSeen>>

\* os.Rename(tmpPath, s.path): the temporary file replaces the file in one
\* step; on an error the temporary file is removed.
saveRename(err) ==
    /\ saving.pc = "Rename"
    /\ file' = IF err = ErrNil THEN [exists |-> TRUE, data |-> tmp.data]
               ELSE file
    /\ tmp' = NoFile
    /\ Return(err)
    /\ UNCHANGED <<records, nextID, index, maxSeen>>

\* The process dies, between two steps of a save or with none in progress,
\* and starts again: NewStore loads the file.  A temporary file the save
\* had created stays in the directory.
Crash ==
    LET s == load(file)
    IN /\ records' = s.records
       /\ nextID' = s.nextID
       /\ index' = s.index
       /\ last' = Call("NewStore", 0, NoRecord, ErrNil)
       /\ maxSeen' = MaxOf(s.records, maxSeen)
       /\ failures' = 0
       /\ saving' = Idle
       /\ UNCHANGED <<file, tmp>>

\* The errors a step of save ends with in the step-by-step runs.
StepResults == {ErrNil, "PathError{EIO}"}

\* Ids handed to Update and Delete in the step-by-step runs.
StepIDs == 1..MaxStepID

NextSteps ==
    \/ \E r \in FewRecords : StartAdd(r) /\ UNCHANGED <<dnsVars, wire, web, lockVars>>
    \/ \E id \in StepIDs, r \in FewRecords :
           StartUpdate(id, r) /\ UNCHANGED <<dnsVars, wire, web, lockVars>>
    \/ \E id \in StepIDs : StartDelete(id) /\ UNCHANGED <<dnsVars, wire, web, lockVars>>
    \/ \E err \in StepResults : saveCreateTemp(err) /\ UNCHANGED <<dnsVars, wire, web, lockVars>>
    \/ \E err \in StepResults : saveWriteString(err) /\ UNCHANGED <<dnsVars, wire, web, lockVars>>
    \/ \E err \in StepResults : saveClose(err) /\ UNCHANGED <<dnsVars, wire, web, lockVars>>
    \/ \E err \in StepResults : saveRename(err) /\ UNCHANGED <<dnsVars, wire, web, lockVars>>
    \/ Crash /\ UNCHANGED <<dnsVars, wire, web, lockVars>>

SpecSteps == Init /\ [][NextSteps]_vars

----------------------------------------------------------------------------
(* Bytes and the DNS wire format (dns.go) *)

\* The printable ASCII characters, from code 32 to code 126 (the grave
\* accent, code 96, under the name the unprintable bytes get below).
Printable ==
    <<" ", "!", "\"", "#", "$", "%", "&", "'", "(", ")", "*", "+", ",", "-",
      ".", "/", "0", "1", "2", "3", "4", "5", "6", "7", "8", "9", ":", ";",
      "<", "=", ">", "?", "@", "A", "B", "C", "D", "E", "F", "G", "H", "I",
      "J", "K", "L", "M", "N", "O", "P", "Q", "R", "S", "T", "U", "V", "W",
      "X", "Y", "Z", "[", "\\", "]", "^", "_", "\\x96", "a", "b", "c", "d", "e",
      "f", "g", "h", "i", "j", "k", "l", "m", "n", "o", "p", "q", "r", "s",
      "t", "u", "v", "w", "x", "y", "z", "{", "|", "}", "~">>

\* string(b) for one byte: the character of the code, and a name of its own
\* for every byte that is not a printable, tab, newline or return.
CharOf ==
    [b \in 0..255 |->
        IF b >= 32 /\ b <= 126 THEN Printable[b - 31]
        ELSE IF b = 9 THEN TAB
        ELSE IF b = 10 THEN NL
        ELSE IF b = 13 THEN CR
        ELSE "\\x" \o ToString(b)]

\* The byte of a character of a string.
ByteOf(c) == CHOOSE b \in 0..255 : CharOf[b] = c

\* string(buf) and []byte(s)
StringOf(bytes) == [i \in 1..Len(bytes) |-> CharOf[bytes[i]]]

BytesOf(s) == [i \in 1..Len(s) |-> ByteOf(s[i])]

\* buf[i] and buf[from:to], with the offsets of the code, which count from 0
At(buf, i) == buf[i + 1]

Slice(buf, from, to) == SubSeq(buf, from + 1, to)

\* binary.BigEndian.Uint16(buf[i : i+2])
Uint16(buf, i) == At(buf, i) * 256 + At(buf, i + 1)

\* strings.Join(parts, ".")
RECURSIVE JoinDots(_)
JoinDots(parts) ==
    IF Len(parts) = 0 THEN <<>>
    ELSE IF Len(parts) = 1 THEN parts[1]
    ELSE parts[1] \o <<".">> \o JoinDots(Tail(parts))

\* What parseDNSName returns when the name does not decode: ("", -1)
NameError == [name |-> <<>>, offset |-> 0 - 1]

\* What a call of parseDNSName returned, with the offsets of buf it read
\* and the number of turns its loop took.
Returned(name, offset, reads, turns) ==
    [name |-> name, offset |-> offset, reads |-> reads, turns |-> turns]

\* The loop of parseDNSName returning what it has when the jumps run out
RECURSIVE parseDNSNameLoopGivingUp(_, _, _, _, _, _, _, _)
parseDNSNameLoopGivingUp(buf, offset, parts, jumped, returnOffset, maxJumps, reads, turns) ==
    IF maxJumps = 0
    THEN Returned(JoinDots(parts), returnOffset, reads, turns)
    ELSE IF offset >= Len(buf)
    THEN Returned(NameError.name, NameError.offset, reads, turns + 1)
    ELSE LET length == At(buf, offset)
         IN IF length = 0
            THEN Returned(JoinDots(parts),
                          IF jumped THEN returnOffset ELSE offset + 1,
                          reads \cup {offset}, turns + 1)
            ELSE IF length >= 192
            THEN IF offset + 1 >= Len(buf)
                 THEN Returned(NameError.name, NameError.offset,
                               reads \cup {offset}, turns + 1)
                 ELSE parseDNSNameLoopGivingUp(
                          buf, (length - 192) * 256 + At(buf, offset + 1),
                          parts, TRUE,
                          IF jumped THEN returnOffset ELSE offset + 2,
                          maxJumps - 1,
                          reads \cup {offset, offset + 1}, turns + 1)
            ELSE IF offset + 1 + length > Len(buf)
            THEN Returned(NameError.name, NameError.offset,
                          reads \cup {offset}, turns + 1)
            ELSE parseDNSNameLoopGivingUp(
                     buf, offset + 1 + length,
                     Append(parts,
                            StringOf(Slice(buf, offset + 1,
                                           offset + 1 + length))),
                     jumped, returnOffset, maxJumps,
                     reads \cup (offset .. offset + length), turns + 1)

\* The loop of parseDNSName returning the offset of the zero byte that
\* ends the name, not the offset after it
RECURSIVE parseDNSNameLoopOffByOne(_, _, _, _, _, _, _, _)
parseDNSNameLoopOffByOne(buf, offset, parts, jumped, returnOffset, maxJumps, reads, turns) ==
    IF maxJumps = 0
    THEN Returned(NameError.name, NameError.offset, reads, turns)
    ELSE IF offset >= Len(buf)
    THEN Returned(NameError.name, NameError.offset, reads, turns + 1)
    ELSE LET length == At(buf, offset)
         IN IF length = 0
            THEN Returned(JoinDots(parts),
                          IF jumped THEN returnOffset ELSE offset,
                          reads \cup {offset}, turns + 1)
            ELSE IF length >= 192
            THEN IF offset + 1 >= Len(buf)
                 THEN Returned(NameError.name, NameError.offset,
                               reads \cup {offset}, turns + 1)
                 ELSE parseDNSNameLoopOffByOne(
                          buf, (length - 192) * 256 + At(buf, offset + 1),
                          parts, TRUE,
                          IF jumped THEN returnOffset ELSE offset + 2,
                          maxJumps - 1,
                          reads \cup {offset, offset + 1}, turns + 1)
            ELSE IF offset + 1 + length > Len(buf)
            THEN Returned(NameError.name, NameError.offset,
                          reads \cup {offset}, turns + 1)
            ELSE parseDNSNameLoopOffByOne(
                     buf, offset + 1 + length,
                     Append(parts,
                            StringOf(Slice(buf, offset + 1,
                                           offset + 1 + length))),
                     jumped, returnOffset, maxJumps,
                     reads \cup (offset .. offset + length), turns + 1)

\* The loop of parseDNSName keeping the offset after the last pointer it
\* followed, not the first
RECURSIVE parseDNSNameLoopLastPointer(_, _, _, _, _, _, _, _)
parseDNSNameLoopLastPointer(buf, offset, parts, jumped, returnOffset, maxJumps, reads, turns) ==
    IF maxJumps = 0
    THEN Returned(NameError.name, NameError.offset, reads, turns)
    ELSE IF offset >= Len(buf)
    THEN Returned(NameError.name, NameError.offset, reads, turns + 1)
    ELSE LET length == At(buf, offset)
         IN IF length = 0
            THEN Returned(JoinDots(parts),
                          IF jumped THEN returnOffset ELSE offset + 1,
                          reads \cup {offset}, turns + 1)
            ELSE IF length >= 192
            THEN IF offset + 1 >= Len(buf)
                 THEN Returned(NameError.name, NameError.offset,
                               reads \cup {offset}, turns + 1)
                 ELSE parseDNSNameLoopLastPointer(
                          buf, (length - 192) * 256 + At(buf, offset + 1),
                          parts, TRUE, offset + 2, maxJumps - 1,
                          reads \cup {offset, offset + 1}, turns + 1)
            ELSE IF offset + 1 + length > Len(buf)
            THEN Returned(NameError.name, NameError.offset,
                          reads \cup {offset}, turns + 1)
            ELSE parseDNSNameLoopLastPointer(
                     buf, offset + 1 + length,
                     Append(parts,
                            StringOf(Slice(buf, offset + 1,
                                           offset + 1 + length))),
                     jumped, returnOffset, maxJumps,
                     reads \cup (offset .. offset + length), turns + 1)

\* The loop of parseDNSName, from one test of maxJumps > 0 on.
RECURSIVE parseDNSNameLoop(_, _, _, _, _, _, _, _)
parseDNSNameLoop(buf, offset, parts, jumped, returnOffset, maxJumps, reads, turns) ==
    IF maxJumps = 0
    THEN Returned(NameError.name, NameError.offset, reads, turns)
    ELSE IF offset >= Len(buf)
    THEN Returned(NameError.name, NameError.offset, reads, turns + 1)
    ELSE LET length == At(buf, offset)
         IN IF length = 0
            THEN Returned(JoinDots(parts),
                          IF jumped THEN returnOffset ELSE offset + 1,
                          reads \cup {offset}, turns + 1)
            ELSE IF length >= 192
            THEN IF offset + 1 >= Len(buf)
                 THEN Returned(NameError.name, NameError.offset,
                               reads \cup {offset}, turns + 1)
                 ELSE parseDNSNameLoop(
                          buf, (length - 192) * 256 + At(buf, offset + 1),
                          parts, TRUE,
                          IF jumped THEN returnOffset ELSE offset + 2,
                          maxJumps - 1,
                          reads \cup {offset, offset + 1}, turns + 1)
            ELSE IF offset + 1 + length > Len(buf)
            THEN Returned(NameError.name, NameError.offset,
                          reads \cup {offset}, turns + 1)
            ELSE parseDNSNameLoop(
                     buf, offset + 1 + length,
                     Append(parts,
                            StringOf(Slice(buf, offset + 1,
                                           offset + 1 + length))),
                     jumped, returnOffset, maxJumps,
                     reads \cup (offset .. offset + length), turns + 1)

\* parseDNSName(buf, offset): the dotted name and the offset after it
parseDNSName(buf, offset) ==
    parseDNSNameLoop(buf, offset, <<>>, FALSE, offset, 10, {}, 0)

\* The loop of encodeDNSName over the parts of the name
RECURSIVE encodeParts(_)
encodeParts(parts) ==
    IF Len(parts) = 0 THEN <<>>
    ELSE IF Len(parts[1]) = 0 THEN encodeParts(Tail(parts))
    ELSE <<Len(parts[1]) % 256>> \o BytesOf(parts[1])
             \o encodeParts(Tail(parts))

\* encodeDNSName without the zero byte that ends the name
encodeDNSNameUnterminated(name) == encodeParts(Split(name, "."))

\* encodeDNSName(name); byte(len(part)) keeps the low 8 bits of the length
encodeDNSName(name) == encodeParts(Split(name, ".")) \o <<0>>

\* The value of a hexadecimal digit, upper or lower case
HexValue(c) ==
    IF IsDigit(c) THEN DigitValue(c)
    ELSE 10 + (CHOOSE i \in 1..6 : LowerCase[i] = ToLowerCh(c)) - 1

IsHexDigit(c) == IsDigit(c) \/ \E i \in 1..6 : LowerCase[i] = ToLowerCh(c)

RECURSIVE HexDigitsValue(_)
HexDigitsValue(s) ==
    IF Len(s) = 0 THEN 0
    ELSE 16 * HexDigitsValue(SubSeq(s, 1, Len(s) - 1)) + HexValue(s[Len(s)])

\* One field of a dotted quad: one to three digits, not above 255, with
\* no leading zero.
IsQuadField(f) ==
    /\ Len(f) \in 1..3
    /\ \A i \in 1..Len(f) : IsDigit(f[i])
    /\ Len(f) > 1 => f[1] # "0"
    /\ DigitsValue(f) <= 255

QuadBytes(fields) ==
    IF Len(fields) = 4 /\ \A i \in 1..4 : IsQuadField(fields[i])
    THEN [i \in 1..4 |-> DigitsValue(fields[i])]
    ELSE <<>>

\* The dotted-quad form net.ParseIP accepts: the four bytes, or the empty
\* list (nil) when s is not of the form.
parseIPv4(s) == QuadBytes(Split(s, "."))

\* One group of an IPv6 address: one to four hexadecimal digits.
IsHexGroup(g) ==
    /\ Len(g) \in 1..4
    /\ \A i \in 1..Len(g) : IsHexDigit(g[i])

\* The bytes of the group g followed by those of the groups after it; the
\* last group may be a dotted quad instead.  ok is false when a group is
\* of neither form.
GroupThen(g, isLast, quad, rest) ==
    IF IsHexGroup(g) /\ rest.ok
    THEN [ok |-> TRUE,
          bytes |-> <<HexDigitsValue(g) \div 256, HexDigitsValue(g) % 256>>
                        \o rest.bytes]
    ELSE IF isLast /\ Len(quad) = 4 THEN [ok |-> TRUE, bytes |-> quad]
    ELSE [ok |-> FALSE, bytes |-> <<>>]

\* The bytes of the colon-separated groups gs of an IPv6 address.
RECURSIVE GroupsBytes(_)
GroupsBytes(gs) ==
    IF Len(gs) = 0 THEN [ok |-> TRUE, bytes |-> <<>>]
    ELSE GroupThen(gs[1], Len(gs) = 1, parseIPv4(gs[1]),
                   GroupsBytes(Tail(gs)))

\* The groups of one side of a "::"
Groups(str) == IF Len(str) = 0 THEN <<>> ELSE Split(str, ":")

\* An address of eight groups
FullAddress(all) ==
    IF all.ok /\ Len(all.bytes) = 16 THEN all.bytes ELSE <<>>

\* An address of the groups head, a "::" and the groups tail: the "::"
\* stands for at least one group of zeros.
ElidedAddress(head, tail) ==
    IF head.ok /\ tail.ok /\ Len(head.bytes) + Len(tail.bytes) <= 14
    THEN head.bytes
             \o [i \in 1..(16 - Len(head.bytes) - Len(tail.bytes)) |-> 0]
             \o tail.bytes
    ELSE <<>>

\* s with a "::" at position k
ElidedAt(s, k) ==
    IF \E i \in 1..(k - 1) : s[i] = "." THEN <<>>
    ELSE ElidedAddress(GroupsBytes(Groups(SubSeq(s, 1, k - 1))),
                       GroupsBytes(Groups(SubSeq(s, k + 2, Len(s)))))

\* The places of s where a "::" starts
Ellipses(s) == {k \in 1..(Len(s) - 1) : s[k] = ":" /\ s[k + 1] = ":"}

\* The IPv6 text forms net.ParseIP accepts (no zone): eight groups, or
\* fewer with one "::" standing for the missing zero groups.
parseIPv6(s) ==
    IF Ellipses(s) = {} THEN FullAddress(GroupsBytes(Split(s, ":")))
    ELSE IF Cardinality(Ellipses(s)) > 1 THEN <<>>
    ELSE ElidedAt(s, CHOOSE k \in Ellipses(s) : TRUE)

\* An IPv4 address in its 16-byte form ::ffff:a.b.c.d
MappedAddress(quad) ==
    IF Len(quad) = 4 THEN [i \in 1..10 |-> 0] \o <<255, 255>> \o quad
    ELSE <<>>

\* The places of the dots and colons of s
Marks(s) == {i \in 1..Len(s) : s[i] \in {".", ":"}}

\* net.ParseIP(s): the 16-byte form of the address, or the empty list for
\* nil.  The first "." or ":" of s decides how the whole of s is read.
ParseIP(s) ==
    IF Marks(s) = {} THEN <<>>
    ELSE IF s[CHOOSE i \in Marks(s) : \A j \in Marks(s) : i <= j] = "."
    THEN MappedAddress(parseIPv4(s))
    ELSE parseIPv6(s)

\* IP.To4(): the four bytes of an IPv4 address, or the empty list for nil
To4(ip) ==
    IF /\ Len(ip) = 16
       /\ \A i \in 1..10 : ip[i] = 0
       /\ ip[11] = 255
       /\ ip[12] = 255
    THEN SubSeq(ip, 13, 16)
    ELSE <<>>

\* A record left out of the answers, and an answer of a type and its data
Skipped == [skip |-> TRUE, rtype |-> 0, rdata |-> <<>>]

Answer(rtype, rdata) == [skip |-> FALSE, rtype |-> rtype, rdata |-> rdata]

\* case "A" of buildDNSResponse, with ip = net.ParseIP(r.Value).To4()
AnswerA(ip) == IF Len(ip) = 0 THEN Skipped ELSE Answer(1, ip)

\* case "AAAA" of buildDNSResponse, with ip = net.ParseIP(r.Value)
AnswerAAAA(ip) ==
    IF Len(ip) = 0 \/ Len(To4(ip)) # 0 THEN Skipped ELSE Answer(28, ip)

\* The switch of buildDNSResponse on the type of a record
AnswerData(r) ==
    CASE r.Type = TypeA -> AnswerA(To4(ParseIP(r.Value)))
      [] r.Type = TypeAAAA -> AnswerAAAA(ParseIP(r.Value))
      [] r.Type = TypeCNAME -> Answer(5, encodeDNSName(r.Value))
      [] OTHER -> Skipped

\* The answer loop counting the records it skips
AnswerThenCountingSkipped(a, rest) ==
    IF a.skip THEN [rest EXCEPT !.ancount = (rest.ancount + 1) % 65536]
    ELSE [answers |->
              <<192, 12>>
                  \o <<a.rtype \div 256, a.rtype % 256>>
                  \o <<0, 1>>
                  \o <<0, 0, 0, 60>>
                  \o <<(Len(a.rdata) \div 256) % 256, Len(a.rdata) % 256>>
                  \o a.rdata
                  \o rest.answers,
          ancount |-> (rest.ancount + 1) % 65536]

\* The answer a, if not skipped, before the answers rest: pointer to the
\* name at offset 12, type, class IN, TTL 60, data length, data
AnswerThen(a, rest) ==
    IF a.skip THEN rest
    ELSE [answers |->
              <<192, 12>>
                  \o <<a.rtype \div 256, a.rtype % 256>>
                  \o <<0, 1>>
                  \o <<0, 0, 0, 60>>
                  \o <<(Len(a.rdata) \div 256) % 256, Len(a.rdata) % 256>>
                  \o a.rdata
                  \o rest.answers,
          ancount |-> (rest.ancount + 1) % 65536]

\* The answer loop of buildDNSResponse: the answer bytes and the count
RECURSIVE buildAnswers(_)
buildAnswers(recs) ==
    IF Len(recs) = 0 THEN [answers |-> <<>>, ancount |-> 0]
    ELSE AnswerThen(AnswerData(recs[1]), buildAnswers(Tail(recs)))

\* The assembly of the response with the flags and counts of the query
AssembleCopyingHeader(query, questionEnd, built) ==
    <<At(query, 0), At(query, 1)>>
        \o <<132 + (At(query, 2) % 128), 128>>
        \o <<At(query, 4), At(query, 5)>>
        \o <<built.ancount \div 256, built.ancount % 256>>
        \o <<0, 0>>
        \o <<0, 0>>
        \o Slice(query, 12, questionEnd)
        \o built.answers

\* The assembly of the response: header, question, answers
Assemble(query, questionEnd, built) ==
    <<At(query, 0), At(query, 1)>>
        \o <<132 + (At(query, 2) % 2), 128>>
        \o <<0, 1>>
        \o <<built.ancount \div 256, built.ancount % 256>>
        \o <<0, 0>>
        \o <<0, 0>>
        \o Slice(query, 12, questionEnd)
        \o built.answers

\* buildDNSResponse(query, questionEnd, records)
buildDNSResponse(query, questionEnd, recs) ==
    Assemble(query, questionEnd, buildAnswers(recs))

\* buildServFail copying the query to its end
buildServFailWhole(query, questionEnd) ==
    <<At(query, 0), At(query, 1)>>
        \o <<128 + (At(query, 2) % 2), 130>>
        \o <<0, 1>>
        \o <<0, 0>>
        \o <<0, 0>>
        \o <<0, 0>>
        \o Slice(query, 12, Len(query))

\* buildServFail(query, questionEnd)
buildServFail(query, questionEnd) ==
    <<At(query, 0), At(query, 1)>>
        \o <<128 + (At(query, 2) % 2), 130>>
        \o <<0, 1>>
        \o <<0, 0>>
        \o <<0, 0>>
        \o <<0, 0>>
        \o Slice(query, 12, questionEnd)

----------------------------------------------------------------------------
(* The DNS server (dns.go): the accept loop of ListenAndServe, the        *)
(* semaphore, and one handler per accepted datagram.                      *)

\* The capacity of DNSServer.sem.  The program sets 1000; the model runs
\* the server with a small capacity, so that every handler is followed.
maxConcurrentQueries == 2
\* ReadFromUDP is not taken once this many datagrams were read.
MaxDatagrams == 3
\* The same in the runs that follow single queries in detail.
MaxQueries == 1
\* The longest list of upstream servers the server is configured with.
MaxUpstreams == 2

\* Question accepting a name followed by two bytes
QuestionOfTwoBytes(buf) ==
    LET n == Len(buf)
        bad == [ok |-> FALSE, qname |-> <<>>, qtype |-> 0, questionEnd |-> 0]
    IN IF n < 12 THEN bad
       ELSE IF At(buf, 2) >= 128 THEN bad
       ELSE IF Uint16(buf, 4) = 0 THEN bad
       ELSE LET parsed == parseDNSName(buf, 12)
            IN IF parsed.offset < 0 \/ parsed.offset + 2 > n THEN bad
               ELSE [ok |-> TRUE, qname |-> parsed.name,
                     qtype |-> Uint16(buf, parsed.offset),
                     questionEnd |-> parsed.offset + 4]

\* What handleQuery reads of a datagram before it consults the store: ok is
\* false when the datagram is dropped, else qname, qtype and questionEnd
\* are those of the first question.
Question(buf) ==
    LET n == Len(buf)
        bad == [ok |-> FALSE, qname |-> <<>>, qtype |-> 0, questionEnd |-> 0]
    IN IF n < 12 THEN bad
       ELSE IF At(buf, 2) >= 128 THEN bad
       ELSE IF Uint16(buf, 4) = 0 THEN bad
       ELSE LET parsed == parseDNSName(buf, 12)
            IN IF parsed.offset < 0 \/ parsed.offset + 4 > n THEN bad
               ELSE [ok |-> TRUE, qname |-> parsed.name,
                     qtype |-> Uint16(buf, parsed.offset),
                     questionEnd |-> parsed.offset + 4]

\* A datagram ReadFromUDP returned, before the select of the accept loop.
\* pc is where the datagram stands: "select", "dropped", or in its handler
\* "handleQuery", "forward" (before the exchange with upstream number up),
\* "release" (handleQuery has returned) and "done".  The rest is what the
\* handler did: the datagrams it sent to the client, its exchanges with
\* upstreams, whether it called Store.Resolve, and how many times it
\* released a slot of the semaphore.
Received(buf) ==
    [buf |-> buf, pc |-> "select", up |-> 0, sent |-> <<>>,
     contacted |-> <<>>, resolved |-> FALSE, released |-> 0]

\* s.conn.WriteToUDP(bytes, addr) after the datagrams of sent: the
\* datagram goes out, or on a closed socket the write fails, which
\* handleQuery ignores.
Written(sent, bytes) ==
    IF listener.conn = "closed" THEN sent ELSE Append(sent, bytes)

\* n, remoteAddr, err := conn.ReadFromUDP(*bufPtr), with a datagram of
\* bufs, and the copy into query
ReadFromUDP(bufs, max) ==
    /\ loop = "read"
    /\ listener.conn = "open"
    /\ Len(queries) < max
    /\ \E buf \in bufs : queries' = Append(queries, Received(buf))
    /\ loop' = "select"
    /\ UNCHANGED <<upstreams, sem>>

\* The select sending on the semaphore and waiting for a slot
DispatchWaiting ==
    /\ loop = "select"
    /\ sem < maxConcurrentQueries
    /\ sem' = sem + 1
    /\ queries' = [queries EXCEPT ![Len(queries)].pc = "handleQuery"]
    /\ loop' = "read"
    /\ UNCHANGED upstreams

\* The select starting the handler without a slot of the semaphore
DispatchUncounted ==
    /\ loop = "select"
    /\ sem' = IF sem < maxConcurrentQueries THEN sem + 1 ELSE sem
    /\ queries' = [queries EXCEPT ![Len(queries)].pc = "handleQuery"]
    /\ loop' = "read"
    /\ UNCHANGED upstreams

\* The select of the accept loop: with a free slot of the semaphore the
\* handler goroutine is started, else the datagram is dropped.
Dispatch ==
    /\ loop = "select"
    /\ IF sem < maxConcurrentQueries
       THEN /\ sem' = sem + 1
            /\ queries' = [queries EXCEPT ![Len(queries)].pc = "handleQuery"]
       ELSE /\ sem' = sem
            /\ queries' = [queries EXCEPT ![Len(queries)].pc = "dropped"]
    /\ loop' = "read"
    /\ UNCHANGED upstreams

\* handleQuery answering a datagram whose QR bit is set like a query
handleQueryOfResponse(i) ==
    LET q == queries[i]
        n == Len(q.buf)
        parsed == parseDNSName(q.buf, 12)
        res == Resolve(parsed.name, Uint16(q.buf, parsed.offset))
    IN /\ i \in 1..Len(queries)
       /\ q.pc = "handleQuery"
       /\ IF \/ n < 12
             \/ Uint16(q.buf, 4) = 0
             \/ parsed.offset < 0
             \/ parsed.offset + 4 > n
          THEN queries' = [queries EXCEPT ![i].pc = "release"]
          ELSE IF res.auth
          THEN queries' = [queries EXCEPT
                   ![i].pc = "release",
                   ![i].resolved = TRUE,
                   ![i].sent = Written(q.sent,
                       buildDNSResponse(q.buf, parsed.offset + 4, res.recs))]
          ELSE queries' = [queries EXCEPT
                   ![i].pc = "forward", ![i].resolved = TRUE, ![i].up = 1]
       /\ UNCHANGED <<upstreams, sem, loop>>

\* handleQuery forwarding when the store has no record of the queried type
handleQueryForwardingEmpty(i) ==
    LET q == queries[i]
        question == Question(q.buf)
        res == Resolve(question.qname, question.qtype)
    IN /\ i \in 1..Len(queries)
       /\ q.pc = "handleQuery"
       /\ IF ~question.ok
          THEN queries' = [queries EXCEPT ![i].pc = "release"]
          ELSE IF Len(res.recs) > 0
          THEN queries' = [queries EXCEPT
                   ![i].pc = "release",
                   ![i].resolved = TRUE,
                   ![i].sent = Written(q.sent,
                       buildDNSResponse(q.buf, question.questionEnd,
                                        res.recs))]
          ELSE queries' = [queries EXCEPT
                   ![i].pc = "forward", ![i].resolved = TRUE, ![i].up = 1]
       /\ UNCHANGED <<upstreams, sem, loop>>

\* handleQuery(buf, addr) of datagram i, up to its return or its call of
\* forwardQuery: the datagram is dropped, or answered from the store, or
\* is to be forwarded.
handleQuery(i) ==
    /\ i \in 1..Len(queries)
    /\ queries[i].pc = "handleQuery"
    /\ \E question \in {Question(queries[i].buf)} :
       \E res \in {Resolve(question.qname, question.qtype)} :
           IF ~question.ok
           THEN queries' = [queries EXCEPT ![i].pc = "release"]
           ELSE IF res.auth
           THEN queries' = [queries EXCEPT
                    ![i].pc = "release",
                    ![i].resolved = TRUE,
                    ![i].sent = Written(queries[i].sent,
                        buildDNSResponse(queries[i].buf, question.questionEnd,
                                         res.recs))]
           ELSE queries' = [queries EXCEPT
                    ![i].pc = "forward", ![i].resolved = TRUE, ![i].up = 1]
    /\ UNCHANGED <<upstreams, sem, loop>>

\* forwardTo returned nil: the dial, the write or the read failed or timed
\* out.
NoReply == [ok |-> FALSE, bytes |-> <<>>]

\* What an exchange with upstream u can give for the query buf: nothing, a
\* datagram of no bytes, or a response to the query (which names u in its
\* last byte, to tell the responses of the upstreams apart).
Replies(buf, u) ==
    { NoReply,
      [ok |-> TRUE, bytes |-> <<>>],
      [ok |-> TRUE,
       bytes |-> <<At(buf, 0), At(buf, 1), 129, 128>>
                     \o Slice(buf, 4, Len(buf)) \o <<u>>] }

\* One exchange of a handler with an upstream, and what it gave.
Exchange(u, reply) == [upstream |-> u, reply |-> reply]

\* forwardTo giving up on all upstreams after one failure
forwardToOnce(i, reply) ==
    LET q == queries[i]
    IN /\ i \in 1..Len(queries)
       /\ q.pc = "forward"
       /\ q.up <= Len(upstreams)
       /\ reply \in Replies(q.buf, upstreams[q.up])
       /\ queries' =
              IF reply.ok
              THEN [queries EXCEPT
                       ![i].contacted = Append(q.contacted,
                                               Exchange(upstreams[q.up], reply)),
                       ![i].sent = Written(q.sent, reply.bytes),
                       ![i].pc = "release"]
              ELSE [queries EXCEPT
                       ![i].contacted = Append(q.contacted,
                                               Exchange(upstreams[q.up], reply)),
                       ![i].up = Len(upstreams) + 1]
       /\ UNCHANGED <<upstreams, sem, loop>>

\* forwardTo walking the upstreams from the last to the first
forwardToReversed(i, reply) ==
    LET q == queries[i]
        u == upstreams[Len(upstreams) + 1 - q.up]
    IN /\ i \in 1..Len(queries)
       /\ q.pc = "forward"
       /\ q.up <= Len(upstreams)
       /\ reply \in Replies(q.buf, u)
       /\ queries' =
              IF reply.ok
              THEN [queries EXCEPT
                       ![i].contacted = Append(q.contacted, Exchange(u, reply)),
                       ![i].sent = Written(q.sent, reply.bytes),
                       ![i].pc = "release"]
              ELSE [queries EXCEPT
                       ![i].contacted = Append(q.contacted, Exchange(u, reply)),
                       ![i].up = q.up + 1]
       /\ UNCHANGED <<upstreams, sem, loop>>

\* One turn of the loop of forwardQuery for datagram i: forwardTo(query,
\* upstream) gives reply; a response ends the loop and handleQuery relays
\* it to the client, nil moves on to the next upstream.
forwardTo(i, reply) ==
    LET q == queries[i]
    IN /\ i \in 1..Len(queries)
       /\ q.pc = "forward"
       /\ q.up <= Len(upstreams)
       /\ reply \in Replies(q.buf, upstreams[q.up])
       /\ queries' =
              IF reply.ok
              THEN [queries EXCEPT
                       ![i].contacted = Append(q.contacted,
                                               Exchange(upstreams[q.up], reply)),
                       ![i].sent = Written(q.sent, reply.bytes),
                       ![i].pc = "release"]
              ELSE [queries EXCEPT
                       ![i].contacted = Append(q.contacted,
                                               Exchange(upstreams[q.up], reply)),
                       ![i].up = q.up + 1]
       /\ UNCHANGED <<upstreams, sem, loop>>

\* forwardQuery returns nil for datagram i, no upstream being left, and
\* handleQuery sends the SERVFAIL it builds.
forwardQueryFailed(i) ==
    LET q == queries[i]
    IN /\ i \in 1..Len(queries)
       /\ q.pc = "forward"
       /\ q.up > Len(upstreams)
       /\ queries' = [queries EXCEPT
              ![i].sent = Written(q.sent,
                  buildServFail(q.buf, Question(q.buf).questionEnd)),
              ![i].pc = "release"]
       /\ UNCHANGED <<upstreams, sem, loop>>

\* The slot released at the end of handleQuery, after its write, instead
\* of by a deferred call: a handler that returns early keeps its slot.
releaseSemAfterWrite(i) ==
    /\ i \in 1..Len(queries)
    /\ queries[i].pc = "release"
    /\ queries[i].resolved
    /\ sem' = sem - 1
    /\ queries' = [queries EXCEPT ![i].pc = "done", ![i].released = @ + 1]
    /\ UNCHANGED <<upstreams, loop>>

\* The deferred <-s.sem of the handler goroutine of datagram i
releaseSem(i) ==
    /\ i \in 1..Len(queries)
    /\ queries[i].pc = "release"
    /\ sem' = sem - 1
    /\ queries' = [queries EXCEPT ![i].pc = "done", ![i].released = @ + 1]
    /\ UNCHANGED <<upstreams, loop>>

\* The 12 bytes of a DNS header with the low byte of the ID, the first
\* flags byte and the question count given, and the type and class IN that
\* follow the name of a question.
Header(id, flags, qdcount) == <<0, id, flags, 0, 0, qdcount, 0, 0, 0, 0, 0, 0>>

TypeClass(qtype) == <<0, qtype, 0, 1>>

\* The datagrams handleQuery drops: 11 bytes; the QR bit set; no question;
\* a header alone; a label longer than the rest; a compression pointer to
\* itself; a name followed by 3 bytes.
DroppedDatagrams ==
    { SubSeq(Header(1, 1, 1), 1, 11),
      Header(2, 129, 1) \o <<1, 97, 0>> \o TypeClass(1),
      Header(3, 1, 0) \o <<1, 97, 0>> \o TypeClass(1),
      Header(4, 1, 1),
      Header(5, 1, 1) \o <<5, 97>>,
      Header(6, 1, 1) \o <<192, 12>> \o TypeClass(1),
      Header(7, 1, 1) \o <<1, 97, 0>> \o <<0, 1, 0>> }

\* Queries for names the store of ServeFile holds: a for A, a for MX (no
\* record of the type and no CNAME), B for AAAA (a CNAME alone), and a
\* for A with the name of the question a compression pointer to the
\* bytes after the question (offset 18), where the name is written.
StoredQueries ==
    { Header(8, 1, 1) \o <<1, 97, 0>> \o TypeClass(1),
      Header(9, 0, 1) \o <<1, 97, 0>> \o TypeClass(15),
      Header(10, 1, 1) \o <<1, 66, 0>> \o TypeClass(28),
      Header(12, 1, 1) \o <<192, 18>> \o TypeClass(1) \o <<1, 97, 0>> }

\* A query for a name the store does not hold: c for A.
ForwardedQueries == { Header(11, 1, 1) \o <<1, 99, 0>> \o TypeClass(1) }

Datagrams == DroppedDatagrams \cup StoredQueries \cup ForwardedQueries

\* The datagrams of the runs that follow the semaphore: one answered from
\* the store, one forwarded.
FewDatagrams ==
    { Header(8, 1, 1) \o <<1, 97, 0>> \o TypeClass(1),
      Header(11, 1, 1) \o <<1, 99, 0>> \o TypeClass(1) }

\* The upstream lists the server is configured with: none, one, or more
\* servers, each named by a number.
UpstreamLists == { [i \in 1..k |-> i] : k \in 0..MaxUpstreams }

\* The records file of the server runs.
ServeFile ==
    [exists |-> TRUE,
     data |-> Line(<<"1">>, <<"a">>, TypeA, <<"1", ".", "2", ".", "3", ".", "4">>)
              \o Line(<<"2">>, <<"a">>, TypeAAAA, <<":", ":", "1">>)
              \o Line(<<"3">>, <<"B">>, TypeCNAME, <<"c", ".", "d">>)]

\* main up to the start of ListenAndServe: NewStore(path), and
\* NewDNSServer(store, upstreams) with an empty semaphore.
InitServe ==
    LET s == load(ServeFile)
    IN /\ file = ServeFile
       /\ records = s.records
       /\ nextID = s.nextID
       /\ index = s.index
       /\ last = Call("NewStore", 0, NoRecord, ErrNil)
       /\ maxSeen = MaxOf(s.records, 0)
       /\ failures = 0
       /\ saving = Idle
       /\ tmp = NoFile
       /\ upstreams \in UpstreamLists
       /\ sem = 0
       /\ loop = "read"
       /\ queries = <<>>
       /\ listener = Listening
       /\ wire = NoCall
       /\ web = NoRequest
       /\ mu = Unlocked
       /\ tasks = <<>>

\* One step of the server: of the accept loop, reading up to max
\* datagrams out of bufs, or of the handler of a datagram.
Serve(bufs, max) ==
    \/ ReadFromUDP(bufs, max) /\ UNCHANGED <<wire, web, lockVars, storeVars, saveVars, listener>>
    \/ Dispatch /\ UNCHANGED <<wire, web, lockVars, storeVars, saveVars, listener>>
    \/ \E i \in 1..Len(queries) :
           handleQuery(i) /\ UNCHANGED <<wire, web, lockVars, storeVars, saveVars, listener>>
    \/ \E i \in 1..Len(queries) :
           \E reply \in UNION { Replies(queries[i].buf, u) :
                                   u \in 1..MaxUpstreams } :
               forwardTo(i, reply) /\ UNCHANGED <<wire, web, lockVars, storeVars, saveVars, listener>>
    \/ \E i \in 1..Len(queries) :
           forwardQueryFailed(i) /\ UNCHANGED <<wire, web, lockVars, storeVars, saveVars, listener>>
    \/ \E i \in 1..Len(queries) :
           releaseSem(i) /\ UNCHANGED <<wire, web, lockVars, storeVars, saveVars, listener>>

\* The server under load: more datagrams than slots of the semaphore.
NextServe == Serve(FewDatagrams, MaxDatagrams)

SpecServe == InitServe /\ [][NextServe]_vars

\* The server handling single datagrams of every kind.
NextQuery == Serve(Datagrams, MaxQueries)

SpecQuery == InitServe /\ [][NextQuery]_vars

\* The order of s.conn = conn and close(s.ready) exchanged
closeReadyFirst ==
    /\ loop \in {"assign", "ready"}
    /\ IF loop = "assign"
       THEN /\ listener' = [listener EXCEPT !.ready = listener.ready + 1]
            /\ loop' = "ready"
       ELSE /\ listener' = [listener EXCEPT !.conn = "open"]
            /\ loop' = "read"
    /\ UNCHANGED <<upstreams, sem, queries>>

\* net.ResolveUDPAddr and net.ListenUDP at the start of ListenAndServe:
\* the socket is bound, or ListenAndServe returns the error.
ListenUDP(ok) ==
    /\ loop = "listen"
    /\ IF ok
       THEN /\ loop' = "assign"
            /\ UNCHANGED listener
       ELSE /\ loop' = "returned"
            /\ listener' = [listener EXCEPT !.result = "bind error"]
    /\ UNCHANGED <<upstreams, sem, queries>>

\* s.conn = conn, then close(s.ready)
closeReady ==
    /\ loop \in {"assign", "ready"}
    /\ IF loop = "assign"
       THEN /\ listener' = [listener EXCEPT !.conn = "open"]
            /\ loop' = "ready"
       ELSE /\ listener' = [listener EXCEPT !.ready = listener.ready + 1]
            /\ loop' = "read"
    /\ UNCHANGED <<upstreams, sem, queries>>

\* conn.ReadFromUDP fails on the closed socket with an error that is not
\* a timeout, and ListenAndServe returns it.
ReadFailed ==
    /\ loop = "read"
    /\ listener.conn = "closed"
    /\ loop' = "returned"
    /\ listener' = [listener EXCEPT !.result = ErrClosed]
    /\ UNCHANGED <<upstreams, sem, queries>>

\* What a read of s.conn in a goroutine that is not synchronised with
\* ListenAndServe can give: nil, or the connection once it is assigned.
Seen == {"nil", listener.conn}

\* Close(), called once by main at shutdown, reading seen in s.conn: the
\* socket is closed unless the read gave nil.
Close(seen) ==
    /\ ~listener.closeCalled
    /\ seen \in Seen
    /\ listener' = [listener EXCEPT
           !.closeCalled = TRUE,
           !.conn = IF seen = "nil" THEN listener.conn ELSE "closed"]
    /\ UNCHANGED <<upstreams, sem, loop, queries>>

\* A goroutine that waits on s.ready is woken and reads s.conn, as
\* TestDNSIntegration does.
Observe ==
    /\ listener.observed = "waiting"
    /\ listener.ready > 0
    /\ listener' = [listener EXCEPT
           !.observed = IF listener.conn = "nil" THEN "nil" ELSE "conn"]
    /\ UNCHANGED <<upstreams, sem, loop, queries>>

\* main up to the go statement that starts ListenAndServe.
InitListen ==
    LET s == load(ServeFile)
    IN /\ file = ServeFile
       /\ records = s.records
       /\ nextID = s.nextID
       /\ index = s.index
       /\ last = Call("NewStore", 0, NoRecord, ErrNil)
       /\ maxSeen = MaxOf(s.records, 0)
       /\ failures = 0
       /\ saving = Idle
       /\ tmp = NoFile
       /\ upstreams \in UpstreamLists
       /\ sem = 0
       /\ loop = "listen"
       /\ queries = <<>>
       /\ listener = NotListening
       /\ wire = NoCall
       /\ web = NoRequest
       /\ mu = Unlocked
       /\ tasks = <<>>

\* The steps the goroutine of ListenAndServe takes on its own, without a
\* datagram arriving.
Accept ==
    \/ \E ok \in BOOLEAN : ListenUDP(ok) /\ UNCHANGED <<wire, web, lockVars, storeVars, saveVars>>
    \/ closeReady /\ UNCHANGED <<wire, web, lockVars, storeVars, saveVars>>
    \/ ReadFailed /\ UNCHANGED <<wire, web, lockVars, storeVars, saveVars>>
    \/ Dispatch /\ UNCHANGED <<wire, web, lockVars, storeVars, saveVars, listener>>

\* The steps of the handler goroutines.
Handle ==
    \/ \E i \in 1..Len(queries) :
           handleQuery(i) /\ UNCHANGED <<wire, web, lockVars, storeVars, saveVars, listener>>
    \/ \E i \in 1..Len(queries) :
           \E reply \in UNION { Replies(queries[i].buf, u) :
                                   u \in 1..MaxUpstreams } :
               forwardTo(i, reply) /\ UNCHANGED <<wire, web, lockVars, storeVars, saveVars, listener>>
    \/ \E i \in 1..Len(queries) :
           forwardQueryFailed(i) /\ UNCHANGED <<wire, web, lockVars, storeVars, saveVars, listener>>
    \/ \E i \in 1..Len(queries) :
           releaseSem(i) /\ UNCHANGED <<wire, web, lockVars, storeVars, saveVars, listener>>

\* The server from the start of ListenAndServe, with Close called at any
\* moment and a goroutine waiting for the readiness signal.
NextListen ==
    \/ Accept
    \/ Handle
    \/ ReadFromUDP(FewDatagrams, MaxQueries)
           /\ UNCHANGED <<wire, web, lockVars, storeVars, saveVars, listener>>
    \/ \E seen \in {"nil", "open"} :
           Close(seen) /\ UNCHANGED <<wire, web, lockVars, storeVars, saveVars>>
    \/ Observe /\ UNCHANGED <<wire, web, lockVars, storeVars, saveVars>>

\* The goroutine of ListenAndServe is scheduled whenever it can take a
\* step; nothing makes a datagram arrive or Close be called.
SpecListen == InitListen /\ [][NextListen]_vars /\ WF_vars(Accept)

\* The datagrams of the runs that follow handlers to their end: one
\* answered from the store (B for AAAA), one forwarded (c for A), a
\* response (QR bit set) and a label longer than the rest of the datagram.
DrainDatagrams ==
    { Header(10, 1, 1) \o <<1, 66, 0>> \o TypeClass(28),
      Header(11, 1, 1) \o <<1, 99, 0>> \o TypeClass(1),
      Header(2, 129, 1) \o <<1, 97, 0>> \o TypeClass(1),
      Header(5, 1, 1) \o <<5, 97>> }

\* The steps of the handler goroutine of datagram i
HandleOf(i) ==
    \/ handleQuery(i) /\ UNCHANGED <<wire, web, lockVars, storeVars, saveVars, listener>>
    \/ /\ i \in 1..Len(queries)
       /\ \E reply \in UNION { Replies(queries[i].buf, u) : u \in 1..MaxUpstreams } :
              forwardTo(i, reply) /\ UNCHANGED <<wire, web, lockVars, storeVars, saveVars, listener>>
    \/ forwardQueryFailed(i) /\ UNCHANGED <<wire, web, lockVars, storeVars, saveVars, listener>>
    \/ releaseSem(i) /\ UNCHANGED <<wire, web, lockVars, storeVars, saveVars, listener>>

\* The server from the start of ListenAndServe to the end of its handlers,
\* with Close called at any moment
NextDrain ==
    \/ Accept
    \/ \E i \in 1..Len(queries) : HandleOf(i)
    \/ ReadFromUDP(DrainDatagrams, MaxQueries)
           /\ UNCHANGED <<wire, web, lockVars, storeVars, saveVars, listener>>
    \/ \E seen \in {"nil", "open"} :
           Close(seen) /\ UNCHANGED <<wire, web, lockVars, storeVars, saveVars>>

\* The goroutine of ListenAndServe and every handler goroutine are
\* scheduled whenever they can take a step: a handler blocks only in its
\* exchange with an upstream, which ends at the deadline of forwardTimeout
\* at the latest.  Nothing makes a datagram arrive or Close be called.
SpecDrain ==
    /\ InitListen
    /\ [][NextDrain]_vars
    /\ WF_vars(Accept)
    /\ \A i \in 1..MaxQueries : WF_vars(HandleOf(i))

----------------------------------------------------------------------------
(* Calls of the functions of the wire format *)

\* A name has at most this many labels.
MaxLabels == 2
\* A buffer given to parseDNSName has at most this many bytes.
MaxBuf == 4

\* The short labels of the names: one letter in either case, two bytes.
ShortLabels == { <<"a">>, <<"B">>, <<"x", "-">> }

\* A label of 63 bytes, the longest a DNS name may hold.
LongLabel == [i \in 1..63 |-> "z"]

\* The names of n short labels joined by dots.
RECURSIVE NamesOf(_)
NamesOf(n) ==
    IF n = 1 THEN ShortLabels
    ELSE { l \o <<".">> \o m : l \in ShortLabels, m \in NamesOf(n - 1) }

ShortNames(most) == UNION { NamesOf(n) : n \in 1..most }

\* The names of at most MaxLabels labels, the long label taken at most
\* once, as the first or the last label.
Names ==
    ShortNames(MaxLabels)
        \cup {LongLabel}
        \cup { LongLabel \o <<".">> \o m : m \in ShortNames(MaxLabels - 1) }
        \cup { m \o <<".">> \o LongLabel : m \in ShortNames(MaxLabels - 1) }

\* Names with an empty label: the empty name, a leading, a trailing and a
\* doubled dot.
OddNames ==
    { <<>>, <<".", "a">>, <<"a", ".">>, <<"a", ".", ".", "B">> }

\* The bytes of the buffers: the end of a name, label lengths, a letter,
\* and the first byte of a compression pointer (to offsets 0.. and 256..).
WireBytes == {0, 1, 2, 97, 192, 193}

Buffers == UNION { [1..n -> WireBytes] : n \in 0..MaxBuf }

\* encodeDNSName(name)
callEncodeDNSName(name) ==
    /\ wire = NoCall
    /\ wire' = [op |-> "encodeDNSName", name |-> name,
                ret |-> encodeDNSName(name)]
    /\ UNCHANGED <<storeVars, saveVars, dnsVars, web, lockVars>>

\* parseDNSName(buf, offset)
callParseDNSName(buf, offset) ==
    /\ wire = NoCall
    /\ wire' = [op |-> "parseDNSName", buf |-> buf, offset |-> offset,
                ret |-> parseDNSName(buf, offset)]
    /\ UNCHANGED <<storeVars, saveVars, dnsVars, web, lockVars>>

\* parseDNSName(encodeDNSName(name), 0), on the encoding just returned
callParseEncoded ==
    /\ wire.op = "encodeDNSName"
    /\ wire' = [op |-> "parseDNSName(encodeDNSName)", name |-> wire.name,
                buf |-> wire.ret, offset |-> 0,
                ret |-> parseDNSName(wire.ret, 0)]
    /\ UNCHANGED <<storeVars, saveVars, dnsVars, web, lockVars>>

\* A process that has loaded an empty store and started no server.
InitWire ==
    LET s == load(NoFile)
    IN /\ file = NoFile
       /\ records = s.records
       /\ nextID = s.nextID
       /\ index = s.index
       /\ last = Call("NewStore", 0, NoRecord, ErrNil)
       /\ maxSeen = MaxOf(s.records, 0)
       /\ failures = 0
       /\ saving = Idle
       /\ tmp = NoFile
       /\ upstreams = <<>>
       /\ sem = 0
       /\ loop = "listen"
       /\ queries = <<>>
       /\ listener = NotListening
       /\ wire = NoCall
       /\ web = NoRequest
       /\ mu = Unlocked
       /\ tasks = <<>>

\* The name functions called, once in a run, on names and on buffers of
\* every content.
NextNames ==
    \/ /\ wire = NoCall
       /\ \E name \in Names \cup OddNames : callEncodeDNSName(name)
    \/ callParseEncoded
    \/ /\ wire = NoCall
       /\ \E buf \in Buffers : \E offset \in 0..Len(buf) :
              callParseDNSName(buf, offset)

SpecNames == InitWire /\ [][NextNames]_vars

\* A record list given to buildDNSResponse has at most this many records.
MaxAnswers == 2

\* The records of the lists: an IPv4 address, a value that is no address,
\* an IPv6 address and an IPv4-mapped address as A records; an IPv6 and
\* an IPv4 address as AAAA records; a CNAME; and a record of another type.
BuildRecords ==
    { Rec(1, <<"a">>, TypeA, <<"1", ".", "2", ".", "3", ".", "4">>),
      Rec(2, <<"a">>, TypeA, <<"x">>),
      Rec(3, <<"a">>, TypeA, <<":", ":", "1">>),
      Rec(4, <<"a">>, TypeA,
          <<":", ":", "f", "f", "f", "f", ":", "1", "0", "2", ":", "3", "0", "4">>),
      Rec(5, <<"a">>, TypeAAAA, <<":", ":", "1">>),
      Rec(6, <<"a">>, TypeAAAA, <<"1", ".", "2", ".", "3", ".", "4">>),
      Rec(7, <<"a">>, TypeCNAME, <<"c", ".", "d">>),
      Rec(8, <<"a">>, <<"M", "X">>, <<"c">>) }

BuildLists == UNION { [1..n -> BuildRecords] : n \in 0..MaxAnswers }

\* The queries of the calls: for a of type A with RD set; for a of type
\* AAAA with ID 0xABCD, an opcode bit and RD, the AD bit, two questions
\* and an additional record announced, and bytes after the first
\* question; for the root of type A with RD clear; for a.a of type MX.
BuildQueries ==
    { Header(8, 1, 1) \o <<1, 97, 0>> \o TypeClass(1),
      <<171, 205, 17, 32, 0, 2, 0, 0, 0, 0, 0, 1>>
          \o <<1, 97, 0>> \o TypeClass(28) \o <<0, 0, 41>>,
      Header(10, 0, 1) \o <<0>> \o TypeClass(1),
      Header(12, 0, 1) \o <<1, 97, 1, 97, 0>> \o TypeClass(15) }

\* buildDNSResponse(buf[:n], questionEnd, records), with the questionEnd
\* handleQuery computes for the query
callBuildDNSResponse(query, recs) ==
    /\ wire = NoCall
    /\ wire' = [op |-> "buildDNSResponse", query |-> query,
                questionEnd |-> Question(query).questionEnd, recs |-> recs,
                ret |-> buildDNSResponse(query, Question(query).questionEnd,
                                         recs)]
    /\ UNCHANGED <<storeVars, saveVars, dnsVars, web, lockVars>>

\* buildServFail(buf[:n], questionEnd)
callBuildServFail(query) ==
    /\ wire = NoCall
    /\ wire' = [op |-> "buildServFail", query |-> query,
                questionEnd |-> Question(query).questionEnd,
                ret |-> buildServFail(query, Question(query).questionEnd)]
    /\ UNCHANGED <<storeVars, saveVars, dnsVars, web, lockVars>>

\* The response builders called, once in a run, on a query and a list.
NextBuild ==
    \/ \E query \in BuildQueries : \E recs \in BuildLists :
           callBuildDNSResponse(query, recs)
    \/ \E query \in BuildQueries : callBuildServFail(query)

SpecBuild == InitWire /\ [][NextBuild]_vars

----------------------------------------------------------------------------
(* The web server (web.go, auth.go): the token check in front of the      *)
(* routes, the routes, and the handlers that call the store.              *)

\* strings.HasPrefix and strings.TrimPrefix
HasPrefix(s, prefix) ==
    Len(s) >= Len(prefix) /\ SubSeq(s, 1, Len(prefix)) = prefix

TrimPrefix(s, prefix) ==
    IF HasPrefix(s, prefix) THEN SubSeq(s, Len(prefix) + 1, Len(s)) ELSE s

\* The white space strings.TrimSpace removes, of the characters in use
WhiteSpace == {" ", TAB, NL, CR}

RECURSIVE TrimSpace(_)
TrimSpace(s) ==
    IF Len(s) > 0 /\ s[1] \in WhiteSpace THEN TrimSpace(Tail(s))
    ELSE IF Len(s) > 0 /\ s[Len(s)] \in WhiteSpace
    THEN TrimSpace(SubSeq(s, 1, Len(s) - 1))
    ELSE s

\* validateRecord(r): the record with its fields trimmed and its type in
\* upper case, and the message of the rejection ("" when it is accepted)
validateRecord(r) ==
    LET rec == Rec(r.ID, TrimSpace(r.Domain), ToUpper(TrimSpace(r.Type)),
                   TrimSpace(r.Value))
        ip == ParseIP(rec.Value)
        err == IF rec.Domain = <<>> THEN "domain is required"
               ELSE IF rec.Value = <<>> THEN "value is required"
               ELSE IF rec.Type = TypeA
               THEN IF ip = <<>> \/ To4(ip) = <<>>
                    THEN "invalid IPv4 address" ELSE ""
               ELSE IF rec.Type = TypeAAAA
               THEN IF ip = <<>> \/ To4(ip) # <<>>
                    THEN "invalid IPv6 address" ELSE ""
               ELSE IF rec.Type = TypeCNAME
               THEN IF \E i \in 1..Len(rec.Value) : rec.Value[i] \in {" ", TAB}
                    THEN "invalid CNAME target" ELSE ""
               ELSE "type must be A, AAAA, or CNAME"
    IN [rec |-> rec, err |-> err]

\* A request: its method, r.URL.Path, its Authorization header ("" when it
\* has none) and its body: whether it decodes as JSON, and the record.
Request(method, path, auth, body) ==
    [method |-> method, path |-> path, auth |-> auth, body |-> body]

BadJSON == [ok |-> FALSE, rec |-> NoRecord]

JSON(rec) == [ok |-> TRUE, rec |-> rec]

\* The path is as the mux wants it: it starts with "/" and has no empty
\* segment but a last one, and no "." or ".." segment.
IsCleanPath(path) ==
    LET segs == Split(path, "/")
    IN /\ Len(path) > 0
       /\ path[1] = "/"
       /\ \A i \in 2..Len(segs) :
              /\ segs[i] = <<>> => i = Len(segs)
              /\ segs[i] \notin {<<".">>, <<".", ".">>}

\* The handler the mux of WebServer.Handler picks for a method and a path:
\* a path that is not clean is redirected to the clean one, and a path
\* that no pattern of the method matches is answered 405.
Route(method, path) ==
    LET segs == Split(path, "/")
        oneRecord == /\ Len(segs) = 4
                     /\ SubSeq(segs, 1, 3) = <<<<>>, <<"a", "p", "i">>, <<"r", "e", "c", "o", "r", "d", "s">>>>
                     /\ segs[4] # <<>>
    IN IF ~IsCleanPath(path) THEN "redirect"
       ELSE IF method = "GET" /\ path = <<"/", "a", "p", "i", "/", "r", "e", "c", "o", "r", "d", "s">> THEN "handleList"
       ELSE IF method = "POST" /\ path = <<"/", "a", "p", "i", "/", "r", "e", "c", "o", "r", "d", "s">> THEN "handleCreate"
       ELSE IF method = "PUT" /\ oneRecord THEN "handleUpdate"
       ELSE IF method = "DELETE" /\ oneRecord THEN "handleDelete"
       ELSE IF method = "GET" THEN "FileServer"
       ELSE "method not allowed"

\* r.PathValue("id") of a path of one record
PathValueID(path) == Split(path, "/")[4]

\* What the web server did with a request: the handler that answered, the
\* status of the answer, and the call the handler made on the store.  n
\* counts the requests served.
Served(token, req, handler, status, call) ==
    [token |-> token, handler |-> handler, n |-> web.n + 1,
     method |-> req.method, path |-> req.path, auth |-> req.auth,
     status |-> status, call |-> call]

\* The request is answered without the store.
Respond(req, handler, status) ==
    /\ web' = Served(web.token, req, handler, status, "none")
    /\ UNCHANGED storeVars

\* handleList: the records of Store.List as JSON
handleList(req) ==
    /\ web' = Served(web.token, req, "handleList", 200, "List")
    /\ UNCHANGED storeVars

\* handleCreate, the save of its Add ending with err
handleCreate(req, err) ==
    IF ~req.body.ok \/ validateRecord(req.body.rec).err # ""
    THEN err = ErrNil /\ Respond(req, "handleCreate", 400)
    ELSE /\ Add(validateRecord(req.body.rec).rec, err)
         /\ web' = Served(web.token, req, "handleCreate",
                          IF err # ErrNil THEN 500 ELSE 201, "Add")

\* handleUpdate, the save of its Update ending with err
handleUpdate(req, err) ==
    LET id == Atoi(PathValueID(req.path))
    IN IF ~id.ok \/ ~req.body.ok \/ validateRecord(req.body.rec).err # ""
       THEN err = ErrNil /\ Respond(req, "handleUpdate", 400)
       ELSE /\ Update(id.val, validateRecord(req.body.rec).rec, err)
            /\ web' = Served(web.token, req, "handleUpdate",
                             IF last'.err = ErrNil THEN 200
                             ELSE IF IsNotExist(last'.err) THEN 404
                             ELSE 500, "Update")

\* handleDelete, the save of its Delete ending with err
handleDelete(req, err) ==
    LET id == Atoi(PathValueID(req.path))
    IN IF ~id.ok
       THEN err = ErrNil /\ Respond(req, "handleDelete", 400)
       ELSE /\ Delete(id.val, err)
            /\ web' = Served(web.token, req, "handleDelete",
                             IF last'.err = ErrNil THEN 204
                             ELSE IF IsNotExist(last'.err) THEN 404
                             ELSE 500, "Delete")

\* The mux: the request goes to the handler of its route.  The file server
\* answers 200 for the page and 404 for any other path.
ServeMux(req, err) ==
    LET h == Route(req.method, req.path)
    IN CASE h = "handleList" -> err = ErrNil /\ handleList(req)
         [] h = "handleCreate" -> handleCreate(req, err)
         [] h = "handleUpdate" -> handleUpdate(req, err)
         [] h = "handleDelete" -> handleDelete(req, err)
         [] h = "redirect" -> err = ErrNil /\ Respond(req, h, 301)
         [] h = "FileServer" ->
                /\ err = ErrNil
                /\ Respond(req, h, IF req.path \in {<<"/">>, <<"/", "i", "n", "d", "e", "x", ".", "h", "t", "m", "l">>}
                                  THEN 200 ELSE 404)
         [] OTHER -> err = ErrNil /\ Respond(req, h, 405)

\* requireAuth comparing the whole header with the token
requireAuthBareToken(req, err) ==
    IF ~HasPrefix(req.path, <<"/", "a", "p", "i", "/">>) THEN ServeMux(req, err)
    ELSE IF req.auth # web.token
    THEN err = ErrNil /\ Respond(req, "requireAuth", 401)
    ELSE ServeMux(req, err)

\* The handler requireAuth(token, next) returns
requireAuth(req, err) ==
    IF ~HasPrefix(req.path, <<"/", "a", "p", "i", "/">>) THEN ServeMux(req, err)
    ELSE IF \/ ~HasPrefix(req.auth, <<"B", "e", "a", "r", "e", "r", " ">>)
            \/ TrimPrefix(req.auth, <<"B", "e", "a", "r", "e", "r", " ">>) # web.token
    THEN err = ErrNil /\ Respond(req, "requireAuth", 401)
    ELSE ServeMux(req, err)

\* WebServer.Handler(): the mux, behind requireAuth when a token is set
ServeHTTP(req, err) ==
    IF web.token # <<>> THEN requireAuth(req, err) ELSE ServeMux(req, err)

\* How many requests the web server serves in a run
MaxRequests == 1

\* The token of the server, and the Authorization headers of requests:
\* none, the right one, another token, the scheme in lower case, the bare
\* token, and the scheme alone.
Token == <<"t", "0">>

Authorizations ==
    { <<>>, <<"B", "e", "a", "r", "e", "r", " ", "t", "0">>,
      <<"B", "e", "a", "r", "e", "r", " ", "t", "1">>,
      <<"b", "e", "a", "r", "e", "r", " ", "t", "0">>, <<"t", "0">>,
      <<"B", "e", "a", "r", "e", "r", " ">> }

\* The paths of requests: the page, the routes of the API, with an id that
\* is no number, without the slash after "api", and with a doubled slash.
Paths ==
    { <<"/">>, <<"/", "a", "p", "i", "/", "r", "e", "c", "o", "r", "d", "s">>,
      <<"/", "a", "p", "i", "/", "r", "e", "c", "o", "r", "d", "s", "/", "1">>,
      <<"/", "a", "p", "i", "/", "r", "e", "c", "o", "r", "d", "s", "/", "x">>,
      <<"/", "a", "p", "i">>,
      <<"/", "/", "a", "p", "i", "/", "r", "e", "c", "o", "r", "d", "s">> }

\* The bodies of requests: no JSON, a record with spaces around its fields,
\* and a record without a domain.
Bodies ==
    { BadJSON,
      JSON(Rec(0, <<" ", "B", " ">>, <<"c", "n", "a", "m", "e", " ">>,
               <<"a">>)),
      JSON(Rec(0, <<" ">>, <<"A">>, <<"1", ".", "2", ".", "3", ".", "4">>)) }

\* The requests: a GET and a DELETE have no body.
Requests ==
    { Request(m, p, a, BadJSON) : m \in {"GET", "DELETE"}, p \in Paths,
                                  a \in Authorizations }
        \cup { Request(m, p, a, b) : m \in {"POST", "PUT"}, p \in Paths,
                                     a \in Authorizations, b \in Bodies }

\* A server started on a file, with a token or without one
InitWeb ==
    \E f \in InitFiles, token \in {<<>>, Token} :
        LET s == load(f)
        IN /\ file = f
           /\ records = s.records
           /\ nextID = s.nextID
           /\ index = s.index
           /\ last = Call("NewStore", 0, NoRecord, ErrNil)
           /\ maxSeen = MaxOf(s.records, 0)
           /\ failures = 0
           /\ saving = Idle
           /\ tmp = NoFile
           /\ upstreams = <<>>
           /\ sem = 0
           /\ loop = "read"
           /\ queries = <<>>
           /\ listener = Listening
           /\ wire = NoCall
           /\ web = [NoRequest EXCEPT !.token = token]
           /\ mu = Unlocked
           /\ tasks = <<>>

\* The results the save of a request may end with: a request that reaches
\* no handler that saves has none to choose.
SaveResultsOf(req) ==
    IF Route(req.method, req.path)
           \in {"handleCreate", "handleUpdate", "handleDelete"}
    THEN SaveResults ELSE {ErrNil}

\* The server serves one request after another, MaxRequests in a run.
NextWeb ==
    /\ web.n < MaxRequests
    /\ \E req \in Requests : \E err \in SaveResultsOf(req) :
           /\ ServeHTTP(req, err)
           /\ UNCHANGED <<saveVars, dnsVars, wire, lockVars>>

SpecWeb == InitWeb /\ [][NextWeb]_vars

----------------------------------------------------------------------------
(* handleQuery on any datagram: the indexes and slices it takes *)

\* buf[lo:hi]; the index buf[i] is Access(i, i + 1).
Access(lo, hi) == [lo |-> lo, hi |-> hi]

\* The indexes and slices handleQuery takes of the datagram, in the
\* functions it calls too: buf[2] and buf[4:6] of the header, the bytes
\* parseDNSName reads, buf[offset:offset+2] for the type, and in
\* buildDNSResponse as in buildServFail query[0], query[1], query[2] and
\* query[12:questionEnd].
Accesses(buf) ==
    LET n == Len(buf)
        q == Question(buf)
        isQuery == n >= 12 /\ At(buf, 2) < 128
        header == IF n < 12 THEN {}
                  ELSE IF At(buf, 2) >= 128 THEN {Access(2, 3)}
                  ELSE {Access(2, 3), Access(4, 6)}
        name == IF isQuery /\ Uint16(buf, 4) # 0
                THEN {Access(r, r + 1) : r \in parseDNSName(buf, 12).reads}
                ELSE {}
        rest == IF q.ok
                THEN {Access(q.questionEnd - 4, q.questionEnd - 2),
                      Access(0, 1), Access(1, 2), Access(2, 3),
                      Access(12, q.questionEnd)}
                ELSE {}
    IN header \cup name \cup rest

\* How many bytes follow the header in the datagrams handed to handleQuery
MaxTail == 5

\* The bytes after the header: a zero, the length of a label, a pointer to
\* the question (192, 12) or into the header (192, 0; 192, 1), a letter.
TailBytes == {0, 1, 12, 97, 192}

Tails == UNION { [1..k -> TailBytes] : k \in 0..MaxTail }

\* Every datagram of the model: a header cut short, and the header of a
\* query, of a response, or of a message without questions, with any tail.
AnyDatagrams ==
    { SubSeq(Header(1, 1, 1), 1, k) : k \in 0..11 }
        \cup { h \o t : h \in {Header(1, 1, 1), Header(2, 129, 1),
                               Header(3, 1, 0)}, t \in Tails }

\* handleQuery(buf, addr) up to its call of the store
callHandleQuery(buf) ==
    /\ wire = NoCall
    /\ wire' = [op |-> "handleQuery", buf |-> buf, question |-> Question(buf),
                accesses |-> Accesses(buf)]
    /\ UNCHANGED <<storeVars, saveVars, dnsVars, web, lockVars>>

NextDatagrams ==
    /\ wire = NoCall
    /\ \E buf \in AnyDatagrams : callHandleQuery(buf)

SpecDatagrams == InitWire /\ [][NextDatagrams]_vars

----------------------------------------------------------------------------
(* Goroutines on one store: the web handlers that call List, Add, Update  *)
(* and Delete and the DNS handlers that call Resolve, each a step at a    *)
(* time, with Store.mu between them.                                      *)

\* How many goroutines call the store in a run
MaxTasks == 3

\* The file the store of these runs was loaded from
LockFile ==
    [exists |-> TRUE,
     data |-> Line(<<"1">>, <<"a">>, TypeA, <<"1", ".", "2", ".", "3", ".", "4">>)]

\* The record Add is handed and the fields Update is handed for id 1
AddedRecord == Rec(0, <<"a">>, TypeA, <<"5", ".", "6", ".", "7", ".", "8">>)

UpdatedRecord == Rec(0, <<"b">>, TypeA, <<"9", ".", "9", ".", "9", ".", "9">>)

\* The query a DNS handler is started with: a for A
LockQuery == Header(8, 1, 1) \o <<1, 97, 0>> \o TypeClass(1)

\* The calls a goroutine makes
Readers == {"List", "handleQuery"}
Writers == {"Add", "Update", "Delete"}

\* A goroutine before its call.  pc is where it stands; all and result are
\* the locals of Resolve, or result the copy List returns; sent is what a
\* DNS handler wrote to its client; list and seen are history, the record
\* list and the index of the store at the step the goroutine read it.
Task(op) ==
    [op |-> op, pc |-> "start", all |-> <<>>, result |-> <<>>, sent |-> <<>>,
     list |-> <<>>, seen |-> EmptyIndex]

\* go: a request or a datagram arrives and its handler starts
Go(op) ==
    /\ Len(tasks) < MaxTasks
    /\ tasks' = Append(tasks, Task(op))
    /\ UNCHANGED <<mu, storeVars>>

\* s.mu.Lock() granted while readers hold the lock
LockDespiteReaders(i) ==
    /\ tasks[i].op \in Writers
    /\ tasks[i].pc = "start"
    /\ ~mu.writer
    /\ mu' = [mu EXCEPT !.writer = TRUE]
    /\ tasks' = [tasks EXCEPT ![i].pc = "locked"]
    /\ UNCHANGED storeVars

\* s.mu.Lock(): granted when no writer and no reader holds the lock
Lock(i) ==
    /\ tasks[i].op \in Writers
    /\ tasks[i].pc = "start"
    /\ ~mu.writer
    /\ mu.readers = 0
    /\ mu' = [mu EXCEPT !.writer = TRUE]
    /\ tasks' = [tasks EXCEPT ![i].pc = "locked"]
    /\ UNCHANGED storeVars

\* The writer changes the record list: Add takes the next id and appends,
\* Update and Delete look for the id (1) and change or cut out its record,
\* or find none and return.
Change(i) ==
    /\ tasks[i].op \in Writers
    /\ tasks[i].pc = "locked"
    /\ CASE tasks[i].op = "Add" ->
                /\ records' = Append(records,
                       Rec(nextID, ToLower(AddedRecord.Domain),
                           ToUpper(AddedRecord.Type), AddedRecord.Value))
                /\ nextID' = nextID + 1
                /\ maxSeen' = IF nextID > maxSeen THEN nextID ELSE maxSeen
                /\ tasks' = [tasks EXCEPT ![i].pc = "rebuild"]
         [] tasks[i].op = "Update" /\ HasID(records, 1) ->
                /\ records' = [records EXCEPT ![IndexOfID(records, 1)] =
                       Rec(1, ToLower(UpdatedRecord.Domain),
                           ToUpper(UpdatedRecord.Type), UpdatedRecord.Value)]
                /\ tasks' = [tasks EXCEPT ![i].pc = "rebuild"]
                /\ UNCHANGED <<nextID, maxSeen>>
         [] tasks[i].op = "Delete" /\ HasID(records, 1) ->
                /\ records' = SubSeq(records, 1, IndexOfID(records, 1) - 1)
                       \o SubSeq(records, IndexOfID(records, 1) + 1,
                                 Len(records))
                /\ tasks' = [tasks EXCEPT ![i].pc = "rebuild"]
                /\ UNCHANGED <<nextID, maxSeen>>
         [] OTHER ->
                /\ tasks' = [tasks EXCEPT ![i].pc = "unlock"]
                /\ UNCHANGED <<records, nextID, maxSeen>>
    /\ UNCHANGED <<mu, index, file, last, failures>>

\* s.rebuildIndex() of the writer
RebuildIndex(i) ==
    /\ tasks[i].op \in Writers
    /\ tasks[i].pc = "rebuild"
    /\ index' = rebuildIndex(records)
    /\ tasks' = [tasks EXCEPT ![i].pc = "save"]
    /\ UNCHANGED <<mu, records, nextID, file, last, maxSeen, failures>>

\* s.save() of the writer, ending with err
Save(i, err) ==
    /\ tasks[i].op \in Writers
    /\ tasks[i].pc = "save"
    /\ records' = records
    /\ save(err)
    /\ tasks' = [tasks EXCEPT ![i].pc = "unlock"]
    /\ UNCHANGED <<mu, nextID, index, last, maxSeen>>

\* The deferred s.mu.Unlock() of the writer
Unlock(i) ==
    /\ tasks[i].op \in Writers
    /\ tasks[i].pc = "unlock"
    /\ mu' = [mu EXCEPT !.writer = FALSE]
    /\ tasks' = [tasks EXCEPT ![i].pc = "done"]
    /\ UNCHANGED storeVars

\* s.mu.RLock() granted while a writer holds the lock
RLockDespiteWriter(i) ==
    /\ tasks[i].op \in Readers
    /\ tasks[i].pc = "start"
    /\ mu' = [mu EXCEPT !.readers = @ + 1]
    /\ tasks' = [tasks EXCEPT ![i].pc = "rlocked"]
    /\ UNCHANGED storeVars

\* s.mu.RLock(): granted when no writer holds the lock.  (A DNS handler has
\* decoded the question of its datagram before.)
RLock(i) ==
    /\ tasks[i].op \in Readers
    /\ tasks[i].pc = "start"
    /\ ~mu.writer
    /\ mu' = [mu EXCEPT !.readers = @ + 1]
    /\ tasks' = [tasks EXCEPT ![i].pc = "rlocked"]
    /\ UNCHANGED storeVars

\* The reader reads the store: List copies s.records, Resolve takes
\* s.index[key] into all.
Read(i) ==
    /\ tasks[i].op \in Readers
    /\ tasks[i].pc = "rlocked"
    /\ tasks' = [tasks EXCEPT
           ![i].pc = IF tasks[i].op = "List" THEN "runlock" ELSE "filter",
           ![i].result = IF tasks[i].op = "List" THEN records ELSE <<>>,
           ![i].all = IF tasks[i].op = "List" THEN <<>>
                      ELSE IndexGet(index, ToLower(Question(LockQuery).qname)),
           ![i].list = records,
           ![i].seen = index]
    /\ UNCHANGED <<mu, storeVars>>

\* The rest of Resolve: the records of all that match the type, or the
\* first CNAME
Filter(i) ==
    LET question == Question(LockQuery)
        key == ToLower(question.qname)
    IN /\ tasks[i].op = "handleQuery"
       /\ tasks[i].pc = "filter"
       /\ tasks' = [tasks EXCEPT
              ![i].pc = "runlock",
              ![i].result = ResolveIn([k \in {key} |-> tasks[i].all],
                                      question.qname, question.qtype).recs]
       /\ UNCHANGED <<mu, storeVars>>

\* The deferred s.mu.RUnlock() of the reader
RUnlock(i) ==
    /\ tasks[i].op \in Readers
    /\ tasks[i].pc = "runlock"
    /\ mu' = [mu EXCEPT !.readers = @ - 1]
    /\ tasks' = [tasks EXCEPT
           ![i].pc = IF tasks[i].op = "List" THEN "done" ELSE "respond"]
    /\ UNCHANGED storeVars

\* handleQuery after Resolve has returned: the answer built from the
\* records, or with no record of the name the SERVFAIL, no upstream being
\* configured.
WriteToUDP(i) ==
    LET question == Question(LockQuery)
    IN /\ tasks[i].op = "handleQuery"
       /\ tasks[i].pc = "respond"
       /\ tasks' = [tasks EXCEPT
              ![i].pc = "done",
              ![i].sent =
                  IF Len(tasks[i].all) > 0
                  THEN <<buildDNSResponse(LockQuery, question.questionEnd,
                                          tasks[i].result)>>
                  ELSE <<buildServFail(LockQuery, question.questionEnd)>>]
       /\ UNCHANGED <<mu, storeVars>>

\* The store loaded from LockFile, no goroutine started, no upstream
InitLocks ==
    LET s == load(LockFile)
    IN /\ file = LockFile
       /\ records = s.records
       /\ nextID = s.nextID
       /\ index = s.index
       /\ last = Call("NewStore", 0, NoRecord, ErrNil)
       /\ maxSeen = MaxOf(s.records, 0)
       /\ failures = 0
       /\ saving = Idle
       /\ tmp = NoFile
       /\ upstreams = <<>>
       /\ sem = 0
       /\ loop = "read"
       /\ queries = <<>>
       /\ listener = Listening
       /\ wire = NoCall
       /\ web = NoRequest
       /\ mu = Unlocked
       /\ tasks = <<>>

NextLocks ==
    \/ \E op \in Readers \cup Writers :
           Go(op) /\ UNCHANGED <<saveVars, dnsVars, wire, web>>
    \/ \E i \in 1..Len(tasks) :
           Lock(i) /\ UNCHANGED <<saveVars, dnsVars, wire, web>>
    \/ \E i \in 1..Len(tasks) :
           Change(i) /\ UNCHANGED <<saveVars, dnsVars, wire, web>>
    \/ \E i \in 1..Len(tasks) :
           RebuildIndex(i) /\ UNCHANGED <<saveVars, dnsVars, wire, web>>
    \/ \E i \in 1..Len(tasks), err \in SaveResults :
           Save(i, err) /\ UNCHANGED <<saveVars, dnsVars, wire, web>>
    \/ \E i \in 1..Len(tasks) :
           Unlock(i) /\ UNCHANGED <<saveVars, dnsVars, wire, web>>
    \/ \E i \in 1..Len(tasks) :
           RLock(i) /\ UNCHANGED <<saveVars, dnsVars, wire, web>>
    \/ \E i \in 1..Len(tasks) :
           Read(i) /\ UNCHANGED <<saveVars, dnsVars, wire, web>>
    \/ \E i \in 1..Len(tasks) :
           Filter(i) /\ UNCHANGED <<saveVars, dnsVars, wire, web>>
    \/ \E i \in 1..Len(tasks) :
           RUnlock(i) /\ UNCHANGED <<saveVars, dnsVars, wire, web>>
    \/ \E i \in 1..Len(tasks) :
           WriteToUDP(i) /\ UNCHANGED <<saveVars, dnsVars, wire, web>>

SpecLocks == InitLocks /\ [][NextLocks]_vars

----------------------------------------------------------------------------
(* Names written with chains of compression pointers *)

\* A chain of compression pointers has at most this many pointers.
MaxChain == 12

\* The name a behind k pointers, each pointing to the bytes after it:
\* pointer i is at offset 2i and points to offset 2(i + 1).
ForwardChain(k) ==
    [j \in 1..(2 * k) |-> IF j % 2 = 1 THEN 192 ELSE j] \o <<1, 97, 0>>

\* The name a followed by k pointers, the first to the name at offset 0
\* and each later one to the pointer before it, as a message compresses
\* names: pointer i is at offset 3 + 2(i - 1).
BackwardChain(k) ==
    <<1, 97, 0>>
        \o [j \in 1..(2 * k) |->
                IF j % 2 = 1 THEN 192 ELSE IF j = 2 THEN 0 ELSE j - 1]

\* The name b.a with k pointers between its two labels: pointer i is at
\* offset 2 + 2i and points to offset 2 + 2(i + 1).
LabelledChain(k) ==
    <<1, 98>>
        \o [j \in 1..(2 * k) |-> IF j % 2 = 1 THEN 192 ELSE j + 2]
        \o <<1, 97, 0>>

ChainBuffers ==
    { ForwardChain(k) : k \in 0..MaxChain }
        \cup { BackwardChain(k) : k \in 0..MaxChain }
        \cup { LabelledChain(k) : k \in 0..MaxChain }

\* parseDNSName called, once in a run, at every offset of a chain.
NextChains ==
    /\ wire = NoCall
    /\ \E buf \in ChainBuffers : \E offset \in 0..Len(buf) :
           callParseDNSName(buf, offset)

SpecChains == InitWire /\ [][NextChains]_vars

----------------------------------------------------------------------------
(* Names the store holds, given to encodeDNSName *)

\* A stored name has at most this many segments between dots.
MaxSegments == 2

\* The lengths of the segments: empty, short, the longest label of a DNS
\* name and one byte more, and the lengths around the 256 values of a byte.
SegmentLengths == {0, 1, 2, 63, 64, 255, 256, 257}

Segments == { [i \in 1..n |-> c] : n \in SegmentLengths, c \in {"a", "z"} }

\* The names of n segments joined by dots.
RECURSIVE SegmentNames(_)
SegmentNames(n) ==
    IF n = 1 THEN Segments
    ELSE { s \o <<".">> \o m : s \in Segments, m \in SegmentNames(n - 1) }

\* The values validateRecord accepts as the target of a CNAME record, which
\* handleCreate and handleUpdate then store.
StoreNames ==
    { name \in UNION { SegmentNames(n) : n \in 1..MaxSegments } :
        validateRecord(Rec(0, <<"a">>, TypeCNAME, name)).err = "" }

\* encodeDNSName called, once in a run, on a stored name.
NextEncode ==
    /\ wire = NoCall
    /\ \E name \in StoreNames : callEncodeDNSName(name)

SpecEncode == InitWire /\ [][NextEncode]_vars

----------------------------------------------------------------------------
(* Resolve *)

\* The domain of r equals d ignoring letter case.
SameDomain(r, d) == ToLower(r.Domain) = ToLower(d)

\* The stored records of domain d, in store order.
RecordsOf(d) == SelectSeq(records, LAMBDA r : SameDomain(r, d))

\* The record type a query type asks for.
Asks(q, rtype) ==
    \/ q = 1 /\ rtype = TypeA
    \/ q = 28 /\ rtype = TypeAAAA
    \/ q = 5 /\ rtype = TypeCNAME

\* C1: Resolve(d, q) is authoritative exactly when some stored record has
\* domain d ignoring case, whatever q is and whatever list it returns; when
\* it is not authoritative the list is empty.
C1_AuthoritativeIffDomainStored ==
    \A d \in QueryDomains, q \in QueryTypes :
        LET res == Resolve(d, q)
        IN /\ res.auth = (\E i \in 1..Len(records) : SameDomain(records[i], d))
           /\ ~res.auth => res.recs = <<>>

\* A stored domain queried in the other letter case for a type it has no
\* record of: authoritative with an empty list, beside an unknown domain.
C1_Witness ==
    /\ \E i \in 1..Len(records) : records[i].Domain = <<"b">>
    /\ Resolve(<<"B">>, 28) = [recs |-> <<>>, auth |-> TRUE]
    /\ Resolve(<<"c">>, 28) = [recs |-> <<>>, auth |-> FALSE]

\* C2: for a domain with stored records, query type 255 returns all its
\* records, and query type 1, 28 or 5 returns exactly its records of type
\* A, AAAA or CNAME when there is one, both in store order.
C2_TypeFilterInStoreOrder ==
    \A d \in QueryDomains :
        Len(RecordsOf(d)) > 0 =>
            /\ Resolve(d, 255).recs = RecordsOf(d)
            /\ \A q \in {1, 28, 5} :
                   LET want == SelectSeq(RecordsOf(d),
                                         LAMBDA r : Asks(q, r.Type))
                   IN Len(want) > 0 => Resolve(d, q).recs = want

\* A domain holding an A record and then an AAAA record: type 28 returns
\* the second alone, type 255 both in store order.
C2_Witness ==
    \E d \in QueryDomains :
        LET all == Resolve(d, 255).recs
        IN /\ Len(all) = 2
           /\ all[1].Type = TypeA
           /\ all[2].Type = TypeAAAA
           /\ Resolve(d, 28).recs = <<all[2]>>
           /\ Resolve(d, 1).recs = <<all[1]>>

\* C3: for a query type other than 255, a domain with records but none of
\* the queried type yields its first CNAME record alone when it has a
\* CNAME, and the empty list otherwise, authoritative in both cases.
C3_CNAMEFallback ==
    \A d \in QueryDomains, q \in QueryTypes \ {255} :
        LET all == RecordsOf(d)
            match == SelectSeq(all, LAMBDA r : Asks(q, r.Type))
            cnames == SelectSeq(all, LAMBDA r : r.Type = TypeCNAME)
        IN (Len(all) > 0 /\ Len(match) = 0) =>
               Resolve(d, q) =
                   [recs |-> IF Len(cnames) > 0 THEN <<cnames[1]>> ELSE <<>>,
                    auth |-> TRUE]

\* A domain holding two CNAME records and nothing else, queried for A:
\* the first CNAME alone comes back.
C3_Witness ==
    \E d \in QueryDomains :
        LET all == RecordsOf(d)
        IN /\ Len(all) = 2
           /\ all[1].Type = TypeCNAME
           /\ all[2].Type = TypeCNAME
           /\ Resolve(d, 1) = [recs |-> <<all[1]>>, auth |-> TRUE]

----------------------------------------------------------------------------
(* Add, Update, Delete and the reload *)

\* The list recs without its element at position i.
Without(recs, i) == SubSeq(recs, 1, i - 1) \o SubSeq(recs, i + 1, Len(recs))

\* C4, as claimed: Add assigns (the largest id among the records stored
\* when it is called) + 1, or 1 when there is none.  (MaxOf starts from 0,
\* so ids that are not positive count as no id at all.)
C4_AddAssignsMaxStoredPlusOne ==
    [][last'.op = "Add" => last'.ret.ID = MaxOf(records, 0) + 1]_vars

\* C4, amended: Add assigns the next-id counter and increments it; the id
\* is at least (the largest stored id) + 1 and at least 1, and Add returns
\* the record it stored last in the list.
C4_AddAssignsNextID ==
    [][last'.op = "Add" =>
          /\ last'.ret.ID = nextID
          /\ nextID' = nextID + 1
          /\ last'.ret.ID >= MaxOf(records, 0) + 1
          /\ records' = Append(records, last'.ret)]_vars

\* Add has just returned id 3 to a store whose only other record has id 1:
\* the record with id 2 was deleted before.
C4_Witness ==
    /\ last.op = "Add"
    /\ Len(records) = 2
    /\ records[1].ID = 1
    /\ records[2] = last.ret
    /\ last.ret.ID = 3

\* C5, as claimed: in every reachable state the stored records have
\* pairwise distinct, positive ids.
C5_IdsDistinctAndPositive ==
    /\ \A i, j \in 1..Len(records) : i # j => records[i].ID # records[j].ID
    /\ \A i \in 1..Len(records) : records[i].ID > 0

\* C6, as claimed: Add assigns one more than the largest id the store ever
\* loaded or assigned, also after a reload and for ids deleted before it.
C6_AddContinuesAfterLargestIdEver ==
    [][last'.op = "Add" => last'.ret.ID = maxSeen + 1]_vars

\* C7, as claimed: when the file is the one save wrote for the records now
\* stored, a store created from it lists the same records in the same
\* order.
C7_ReloadListsTheSame ==
    [][(last'.op = "NewStore" /\ file.data = saveBuffer(records)) =>
          records' = records]_vars

\* C8: Update or Delete of an id no stored record has returns the
\* not-found error and leaves the records, the index, the next id and the
\* file as they were.
C8_UnknownIdChangesNothing ==
    [][(last'.op \in {"Update", "Delete"} /\ ~HasID(records, last'.id)) =>
          /\ last'.err = ErrNotExist
          /\ last'.ret = NoRecord
          /\ UNCHANGED <<records, index, nextID, file>>]_vars

\* Delete of an unknown id has just returned not-found to a store that
\* holds records and whose file lags behind it.
C8_Witness ==
    /\ last.op = "Delete"
    /\ last.err = ErrNotExist
    /\ Len(records) > 0
    /\ ~HasID(records, last.id)
    /\ file.data # saveBuffer(records)

\* C9, as claimed: Update and Delete return an error that tests as
\* not-found only when no stored record has the id.
C9_NotFoundOnlyForUnknownId ==
    [][(last'.op \in {"Update", "Delete"} /\ IsNotExist(last'.err)) =>
          ~HasID(records, last'.id)]_vars

\* C10: when the save of Add, Update or Delete fails, the call returns the
\* error, the file keeps its content, and the change stays in memory: the
\* list holds it, Resolve answers from it, and Add has used up the id.
C10_FailedSaveKeepsChange ==
    [][(last'.op \in {"Add", "Update", "Delete"} /\ last'.err \in SaveErrors) =>
          /\ file' = file
          /\ \A d \in QueryDomains :
                 ResolveIn(index', d, 255).recs =
                     SelectSeq(records', LAMBDA r : SameDomain(r, d))
          /\ last'.op = "Add" =>
                 /\ records' = Append(records, last'.ret)
                 /\ last'.ret.ID = nextID
                 /\ nextID' = nextID + 1
          /\ last'.op = "Update" =>
                 /\ HasID(records, last'.id)
                 /\ last'.ret.ID = last'.id
                 /\ records' = [records EXCEPT
                                   ![IndexOfID(records, last'.id)] = last'.ret]
                 /\ nextID' = nextID
          /\ last'.op = "Delete" =>
                 /\ HasID(records, last'.id)
                 /\ records' = Without(records, IndexOfID(records, last'.id))
                 /\ nextID' = nextID]_vars

\* The save of an Add has just failed: the new record is listed and
\* resolved, the next id has moved on, and the file does not hold the record.
C10_Witness ==
    /\ last.op = "Add"
    /\ last.err \in SaveErrors
    /\ Len(records) > 0
    /\ records[Len(records)] = last.ret
    /\ Resolve(last.ret.Domain, 255).auth
    /\ nextID = last.ret.ID + 1
    /\ load(file).records # records

\* C15: an Update that returns no error replaces the domain, type and
\* value of the record with the id, which keeps its id and its place in the
\* list; a Delete that returns no error removes that record alone; both
\* leave every other record, their order and the next id as they were.
C15_UpdateDeleteFrame ==
    [][(last'.op \in {"Update", "Delete"} /\ last'.err = ErrNil) =>
          /\ HasID(records, last'.id)
          /\ nextID' = nextID
          /\ \E i \in 1..Len(records) :
                 /\ records[i].ID = last'.id
                 /\ IF last'.op = "Update"
                    THEN /\ last'.ret.ID = last'.id
                         /\ records' = [records EXCEPT ![i] = last'.ret]
                    ELSE records' = Without(records, i)]_vars

\* Delete has just removed the first of two records: the second is still
\* stored, now first, and the next id is past both.
C15_Witness ==
    /\ last.op = "Delete"
    /\ last.err = ErrNil
    /\ Len(records) = 1
    /\ records[1].ID > last.id
    /\ nextID > records[1].ID
    /\ file = [exists |-> TRUE, data |-> saveBuffer(records)]

----------------------------------------------------------------------------
(* Persistence *)

\* The file save leaves for the record list recs.
Saved(recs) == [exists |-> TRUE, data |-> saveBuffer(recs)]

\* C11: at every step of a save, a failing step, the return and a crash
\* included, the file is either as it was when the save began or the
\* complete buffer of the records now in memory, never a part of it; and
\* a save that returns an error leaves the file as it was when the save
\* began, with no temporary file left.
C11_SaveKeepsFileWhole ==
    [][/\ saving.pc # "idle" => file' \in {saving.before, Saved(records)}
       /\ (saving.pc # "idle" /\ saving'.pc = "idle"
               /\ last'.err \in SaveErrors) =>
              /\ file' = saving.before
              /\ ~tmp'.exists]_vars

\* A save is half way through its write: the temporary file holds the
\* first part of the buffer, and the file still holds the older,
\* different, record set.
C11_Witness ==
    /\ saving.pc = "WriteString"
    /\ tmp.exists
    /\ 0 < Len(tmp.data)
    /\ Len(tmp.data) < Len(saveBuffer(records))
    /\ file = saving.before
    /\ Len(file.data) > 0
    /\ file # Saved(records)

\* The newline-terminated lines of data, in order.
LinesOf(data) ==
    IF Len(data) = 0 THEN <<>>
    ELSE LET parts == Split(data, NL)
         IN SubSeq(parts, 1, Len(parts) - 1)

\* The file holds one newline-terminated line per record of recs, in the
\* order of recs, whose tab-separated fields are the id in decimal, the
\* domain, the type and the value of the record.
HoldsOneLinePerRecord(f, recs) ==
    /\ f.exists
    /\ Len(f.data) > 0 => f.data[Len(f.data)] = NL
    /\ Len(LinesOf(f.data)) = Len(recs)
    /\ \A i \in 1..Len(recs) :
           i <= Len(LinesOf(f.data)) =>
               Split(LinesOf(f.data)[i], TAB) =
                   <<Itoa(recs[i].ID), recs[i].Domain, recs[i].Type,
                     recs[i].Value>>

\* C12, as claimed: whenever Add, Update or Delete returns without error,
\* the file holds exactly one tab-separated, newline-terminated line per
\* record in memory, in store order, with the fields id, domain, type and
\* value.
C12_FileHoldsOneLinePerRecord ==
    [][(last'.op \in {"Add", "Update", "Delete"} /\ last'.err = ErrNil) =>
          HoldsOneLinePerRecord(file', records')]_vars

----------------------------------------------------------------------------
(* Loading *)

\* The lines of the file that count as records: those with 4 tab-separated
\* fields, a decimal integer as id and one of the three types.  (A line
\* ends at the newline, a carriage return before it not counted.)
ValidLines(data) ==
    SelectSeq([i \in 1..Len(Split(data, NL)) |->
                   Split(TrimRight(Split(data, NL)[i], CR), TAB)],
              LAMBDA f : /\ Len(f) = 4
                         /\ Atoi(f[1]).ok
                         /\ f[3] \in {TypeA, TypeAAAA, TypeCNAME})

\* The largest id among the field lists lines; none is given as an empty
\* list.
RECURSIVE LargestID(_)
LargestID(lines) ==
    IF Len(lines) = 1 THEN Atoi(lines[1][1]).val
    ELSE LET rest == LargestID(Tail(lines))
             id == Atoi(lines[1][1]).val
         IN IF id > rest THEN id ELSE rest

\* C13, as claimed: a load takes from the file exactly its valid lines, in
\* file order, and sets the next id to one more than the largest id among
\* them, or to 1 when there is none.
C13_LoadKeepsValidLines ==
    last.op = "NewStore" =>
        LET lines == ValidLines(file.data)
        IN /\ records = [i \in 1..Len(lines) |->
                            Rec(Atoi(lines[i][1]).val, lines[i][2],
                                lines[i][3], lines[i][4])]
           /\ nextID = IF Len(lines) = 0 THEN 1 ELSE LargestID(lines) + 1

\* C14, as claimed: in every reachable state, right after a load included,
\* the domain of each stored record is lower-case and its type upper-case.
C14_StoredCaseNormalised ==
    \A i \in 1..Len(records) :
        /\ records[i].Domain = ToLower(records[i].Domain)
        /\ records[i].Type = ToUpper(records[i].Type)

----------------------------------------------------------------------------
(* The DNS server *)

\* The handlers in flight: started by the accept loop, and not yet back
\* from handleQuery and the release of their slot.
InFlight ==
    {i \in 1..Len(queries) :
        queries[i].pc \in {"handleQuery", "forward", "release"}}

\* C16: in every reachable state the number of handlers in flight is at
\* most the capacity of the semaphore, and the semaphore holds one slot
\* per handler in flight.
C16_InFlightWithinCapacity ==
    /\ Cardinality(InFlight) <= maxConcurrentQueries
    /\ sem = Cardinality(InFlight)

\* Every slot is held by a handler in flight, one of them waiting for an
\* upstream, and the accept loop has read one more datagram.
C16_Witness ==
    /\ Cardinality(InFlight) = maxConcurrentQueries
    /\ \E i \in InFlight : queries[i].pc = "forward"
    /\ loop = "select"

\* The datagrams the select of the accept loop dropped.
Dropped == {i \in 1..Len(queries) : queries[i].pc = "dropped"}

\* C17: a datagram that reaches the select while every slot of the
\* semaphore is held is dropped and the loop goes back to its read; a
\* dropped datagram is never handled and never answered; and the select
\* is never held up, whatever the handlers are doing.
C17_DroppedNeverHandled ==
    /\ [](loop = "select" => ENABLED Dispatch)
    /\ [](\A i \in Dropped :
             /\ queries[i].sent = <<>>
             /\ queries[i].contacted = <<>>
             /\ ~queries[i].resolved)
    /\ [][/\ (loop = "select" /\ loop' # "select"
                  /\ sem = maxConcurrentQueries) =>
                 /\ loop' = "read"
                 /\ Len(queries') = Len(queries)
                 /\ Len(queries) \in Dropped'
                 /\ sem' = sem
          /\ \A i \in Dropped : queries'[i] = queries[i]]_vars

\* The last datagram read was dropped, every slot being held by a handler
\* waiting for an upstream, and the accept loop is back at its read.
C17_Witness ==
    /\ Len(queries) \in Dropped
    /\ Cardinality(InFlight) = maxConcurrentQueries
    /\ \A i \in InFlight : queries[i].pc = "forward"
    /\ loop = "read"

\* The handler of datagram i is past handleQuery.
Handled(i) == queries[i].pc \in {"release", "done"}

\* buf is shorter than a header, or is a response, or has no question, or
\* its first name does not decode, or fewer than 4 bytes follow the name.
Malformed(buf) ==
    \/ Len(buf) < 12
    \/ At(buf, 2) \div 128 = 1
    \/ At(buf, 4) = 0 /\ At(buf, 5) = 0
    \/ parseDNSName(buf, 12).offset = -1
    \/ Len(buf) - parseDNSName(buf, 12).offset < 4

\* C18: the handler of a malformed datagram sends nothing, does not call
\* Resolve, contacts no upstream, and returns.
C18_MalformedDroppedSilently ==
    \A i \in 1..Len(queries) :
        Malformed(queries[i].buf) =>
            /\ queries[i].sent = <<>>
            /\ queries[i].contacted = <<>>
            /\ ~queries[i].resolved
            /\ queries[i].pc # "forward"

\* The handler of a datagram with the QR bit set has returned; as a query
\* the datagram would have been answered from the store.
C18_Witness ==
    \E i \in 1..Len(queries) :
        /\ queries[i].pc = "done"
        /\ Malformed(queries[i].buf)
        /\ At(queries[i].buf, 2) >= 128
        /\ Resolve(parseDNSName(queries[i].buf, 12).name, 1).auth

\* The name datagram buf asks for.
QName(buf) == parseDNSName(buf, 12).name

\* The store holds a record for the name a well-formed buf asks for.
Stored(buf) ==
    /\ ~Malformed(buf)
    /\ \E k \in 1..Len(records) : SameDomain(records[k], QName(buf))

\* resp carries the ID of buf and has the QR bit set.
RespondsTo(resp, buf) ==
    /\ Len(resp) >= 12
    /\ At(resp, 0) = At(buf, 0)
    /\ At(resp, 1) = At(buf, 1)
    /\ At(resp, 2) \div 128 = 1

\* C19: the handler of a query for a name the store holds a record of
\* contacts no upstream, and once it has returned it has sent exactly one
\* datagram, a response to the query with the AA bit set and RCODE 0,
\* whatever the number of its answers.
C19_StoredNameAnsweredLocally ==
    \A i \in 1..Len(queries) :
        Stored(queries[i].buf) =>
            /\ queries[i].contacted = <<>>
            /\ queries[i].pc # "forward"
            /\ Handled(i) =>
                   /\ Len(queries[i].sent) = 1
                   /\ RespondsTo(queries[i].sent[1], queries[i].buf)
                   /\ (At(queries[i].sent[1], 2) \div 4) % 2 = 1
                   /\ At(queries[i].sent[1], 3) % 16 = 0

\* A query of type MX for a name that has A and AAAA records alone has
\* been answered with ANCOUNT 0.
C19_Witness ==
    \E i \in 1..Len(queries) :
        /\ Stored(queries[i].buf)
        /\ queries[i].pc = "done"
        /\ Uint16(queries[i].buf, Len(queries[i].buf) - 4) = 15
        /\ Len(queries[i].sent) = 1
        /\ Uint16(queries[i].sent[1], 6) = 0
        /\ Len(upstreams) > 0

\* resp is a SERVFAIL for buf: a response to it with RCODE 2 and ANCOUNT 0.
IsServFail(resp, buf) ==
    /\ RespondsTo(resp, buf)
    /\ At(resp, 3) % 16 = 2
    /\ Uint16(resp, 6) = 0

\* The exchanges of seq that gave a response.
Answered(seq) == {k \in 1..Len(seq) : seq[k].reply.ok}

\* C20: the handler of a well-formed query for a name without a stored
\* record tries the upstreams in their configured order up to the first
\* that answers, and once it has returned it has sent exactly one
\* datagram: what that upstream answered, or, exactly when every
\* configured upstream failed (also when none is configured), a SERVFAIL
\* with RCODE 2 and ANCOUNT 0.
C20_ForwardedOrServFail ==
    \A i \in 1..Len(queries) :
        LET q == queries[i]
            n == Len(q.contacted)
        IN (~Malformed(q.buf) /\ ~Stored(q.buf)) =>
               /\ n <= Len(upstreams)
               /\ \A k \in 1..n : q.contacted[k].upstream = upstreams[k]
               /\ Answered(q.contacted) \subseteq {n}
               /\ ~Handled(i) => q.sent = <<>> /\ Answered(q.contacted) = {}
               /\ Handled(i) =>
                      /\ Len(q.sent) = 1
                      /\ IF Answered(q.contacted) = {n}
                         THEN /\ q.sent[1] = q.contacted[n].reply.bytes
                              /\ ~IsServFail(q.sent[1], q.buf)
                         ELSE /\ n = Len(upstreams)
                              /\ IsServFail(q.sent[1], q.buf)

\* The first upstream failed, the second answered, and its response is
\* the one datagram the handler has sent.
C20_Witness ==
    \E i \in 1..Len(queries) :
        LET q == queries[i]
        IN /\ ~Malformed(q.buf)
           /\ ~Stored(q.buf)
           /\ q.pc = "done"
           /\ Len(q.contacted) = 2
           /\ ~q.contacted[1].reply.ok
           /\ q.contacted[2].reply.ok
           /\ Len(q.contacted[2].reply.bytes) > 12
           /\ q.sent = <<q.contacted[2].reply.bytes>>

\* C21: every exchange of the forwarder is with the next entry of the
\* upstream list, after every earlier entry failed and none answered; the
\* bytes of the entry that answers are what the forwarder returns, with no
\* further exchange; and it returns nothing only when every entry of the
\* list was tried and failed.
C21_UpstreamsInOrder ==
    [][\A i \in 1..Len(queries) :
          LET q == queries[i]
              n == Len(q.contacted)
              after == queries'[i]
          IN /\ after.contacted # q.contacted =>
                    /\ q.pc = "forward"
                    /\ Answered(q.contacted) = {}
                    /\ n < Len(upstreams)
                    /\ Len(after.contacted) = n + 1
                    /\ SubSeq(after.contacted, 1, n) = q.contacted
                    /\ after.contacted[n + 1].upstream = upstreams[n + 1]
                    /\ IF after.contacted[n + 1].reply.ok
                       THEN /\ after.sent = <<after.contacted[n + 1].reply.bytes>>
                            /\ after.pc = "release"
                       ELSE /\ after.sent = <<>>
                            /\ after.pc = "forward"
             /\ (q.pc = "forward" /\ after.pc # "forward"
                     /\ after.contacted = q.contacted) =>
                    /\ n = Len(upstreams)
                    /\ Answered(q.contacted) = {}]_vars

\* With two upstreams configured the first answered: the handler has
\* returned after that one exchange.
C21_Witness ==
    \E i \in 1..Len(queries) :
        /\ Len(upstreams) = 2
        /\ queries[i].pc = "done"
        /\ Len(queries[i].contacted) = 1
        /\ queries[i].contacted[1].upstream = upstreams[1]
        /\ queries[i].contacted[1].reply.ok
        /\ queries[i].sent = <<queries[i].contacted[1].reply.bytes>>

\* C22: every datagram a handler has sent to its client holds at least
\* the 12 bytes of a DNS header, whether built from the store, a SERVFAIL
\* or relayed from an upstream.
C22_SentAtLeastHeader ==
    \A i \in 1..Len(queries) :
        \A k \in 1..Len(queries[i].sent) : Len(queries[i].sent[k]) >= 12

\* C23: once Close has been called, ListenAndServe returns in the end with
\* the error of the closed socket, and no datagram is accepted after the
\* call, wherever ListenAndServe stood when Close was called.
C23_CloseStopsServing ==
    /\ listener.closeCalled ~>
           (loop = "returned" /\ listener.result = ErrClosed)
    /\ [][listener.closeCalled => Len(queries') = Len(queries)]_vars

\* C24: the readiness signal fires at most once, and exactly once when
\* the socket was bound; it has fired only with the connection assigned,
\* so that a goroutine woken by it finds the connection in s.conn; and it
\* does not fire when binding fails.
C24_ReadyOnceAfterBind ==
    /\ listener.ready <= 1
    /\ listener.ready = 1 <=>
           \/ loop \in {"read", "select"}
           \/ loop = "returned" /\ listener.result # "bind error"
    /\ listener.ready = 1 => listener.conn # "nil"
    /\ listener.observed # "nil"
    /\ listener.result = "bind error" =>
           listener.ready = 0 /\ listener.observed = "waiting"

\* A goroutine woken by the signal has found the connection, and the
\* server has answered a datagram.
C24_Witness ==
    /\ listener.ready = 1
    /\ listener.observed = "conn"
    /\ ~listener.closeCalled
    /\ \E i \in 1..Len(queries) :
           queries[i].pc = "done" /\ Len(queries[i].sent) = 1

----------------------------------------------------------------------------
(* The wire format *)

\* name is made of labels of 1 to 63 bytes joined by dots.
WellFormedName(name) ==
    LET labels == Split(name, ".")
    IN \A k \in 1..Len(labels) : Len(labels[k]) \in 1..63

\* C25: for a name of labels of 1 to 63 bytes joined by dots,
\* parseDNSName(encodeDNSName(name), 0) returns the name and the length
\* of the encoding as the next offset.
C25_NameRoundTrip ==
    (wire.op = "parseDNSName(encodeDNSName)" /\ WellFormedName(wire.name)) =>
        /\ wire.ret.name = wire.name
        /\ wire.ret.offset = Len(wire.buf)

\* A name of two labels, the second of 63 bytes, has been encoded and
\* parsed back.
C25_Witness ==
    /\ wire.op = "parseDNSName(encodeDNSName)"
    /\ WellFormedName(wire.name)
    /\ Len(Split(wire.name, ".")) = 2
    /\ Len(Split(wire.name, ".")[2]) = 63
    /\ wire.ret.name = wire.name
    /\ wire.ret.offset = 67

\* parseDNSName has been called and has returned.
Parsed == wire.op \in {"parseDNSName", "parseDNSName(encodeDNSName)"}

\* Following the name of buf from offset, through labels and compression
\* pointers, comes back to a pointer it has followed before (seen).
RECURSIVE Cycles(_, _, _)
Cycles(buf, offset, seen) ==
    IF offset >= Len(buf) THEN FALSE
    ELSE IF At(buf, offset) = 0 THEN FALSE
    ELSE IF At(buf, offset) \div 64 = 3
    THEN IF offset + 1 >= Len(buf) THEN FALSE
         ELSE IF offset \in seen THEN TRUE
         ELSE Cycles(buf, (At(buf, offset) % 64) * 256 + At(buf, offset + 1),
                     seen \cup {offset})
    ELSE IF offset + 1 + At(buf, offset) > Len(buf) THEN FALSE
    ELSE Cycles(buf, offset + 1 + At(buf, offset), seen)

\* C26: parseDNSName returns after a number of turns of its loop bounded
\* by the length of the buffer (at most 10 stretches of labels, each
\* ended by a pointer, the end of the name or an error), and on a buffer
\* whose pointers lead back to themselves it returns the error ("", -1).
C26_ParseTerminates ==
    Parsed =>
        /\ wire.ret.turns <= 10 * (Len(wire.buf) \div 2 + 1)
        /\ Cycles(wire.buf, wire.offset, {}) =>
               /\ wire.ret.name = <<>>
               /\ wire.ret.offset = -1

\* Two pointers that point to each other: the error came after ten
\* pointers were followed.
C26_Witness ==
    /\ wire.op = "parseDNSName"
    /\ wire.buf = <<192, 2, 192, 0>>
    /\ wire.offset = 2
    /\ Cycles(wire.buf, wire.offset, {})
    /\ wire.ret.offset = -1
    /\ wire.ret.turns = 10

\* The two bytes at offset of buf are a compression pointer.
PointerAt(buf, offset) ==
    /\ offset + 1 < Len(buf)
    /\ At(buf, offset) >= 192

\* The offset the compression pointer at offset of buf points to.
TargetOf(buf, offset) ==
    (At(buf, offset) - 192) * 256 + At(buf, offset + 1)

\* C27: parseDNSName, called with an offset from 0 to the length of the
\* buffer, reads the buffer below its length only; it returns the error
\* ("", -1) or a next offset from 1 to the length of the buffer; an empty
\* buffer, a label longer than the rest of the buffer and a pointer to an
\* offset outside the buffer give the error.
C27_ParseWithinBuffer ==
    Parsed =>
        LET n == Len(wire.buf)
            failed == wire.ret.name = <<>> /\ wire.ret.offset = -1
        IN /\ \A r \in wire.ret.reads : 0 <= r /\ r < n
           /\ failed \/ wire.ret.offset \in 1..n
           /\ n = 0 => failed
           /\ (/\ wire.offset < n
               /\ At(wire.buf, wire.offset) \in 1..191
               /\ wire.offset + At(wire.buf, wire.offset) >= n) => failed
           /\ (/\ PointerAt(wire.buf, wire.offset)
               /\ TargetOf(wire.buf, wire.offset) >= n) => failed

\* A name in the last three bytes of the buffer, parsed from offset 1:
\* the next offset is the length of the buffer, and the bytes read are
\* those of the name.
C27_Witness ==
    /\ wire.op = "parseDNSName"
    /\ wire.buf = <<0, 1, 97, 0>>
    /\ wire.offset = 1
    /\ wire.ret.name = <<"a">>
    /\ wire.ret.offset = Len(wire.buf)
    /\ wire.ret.reads = 1..3

\* buildDNSResponse emits record r, by the words of the claim: an A record
\* with an IPv4 address, an AAAA record with an IPv6 address that is not
\* an IPv4 address, a CNAME record.
Emitted(r) ==
    \/ r.Type = TypeA /\ To4(ParseIP(r.Value)) # <<>>
    \/ r.Type = TypeAAAA /\ ParseIP(r.Value) # <<>>
           /\ To4(ParseIP(r.Value)) = <<>>
    \/ r.Type = TypeCNAME

\* The type and the data of the answer for an emitted record r.
AnswerFor(r) ==
    IF r.Type = TypeA THEN [rtype |-> 1, rdata |-> To4(ParseIP(r.Value))]
    ELSE IF r.Type = TypeAAAA THEN [rtype |-> 28, rdata |-> ParseIP(r.Value)]
    ELSE [rtype |-> 5, rdata |-> encodeDNSName(r.Value)]

\* The answers of resp read from offset p to its end: each is 12 bytes
\* (name pointer, type, class, TTL, data length) and its data; bytes
\* that do not make an answer are a last element "torn".
RECURSIVE AnswersFrom(_, _)
AnswersFrom(resp, p) ==
    IF p >= Len(resp) THEN <<>>
    ELSE IF p + 12 > Len(resp) THEN <<"torn">>
    ELSE IF p + 12 + Uint16(resp, p + 10) > Len(resp) THEN <<"torn">>
    ELSE <<[rtype |-> Uint16(resp, p + 2),
            rdata |-> Slice(resp, p + 12, p + 12 + Uint16(resp, p + 10))]>>
             \o AnswersFrom(resp, p + 12 + Uint16(resp, p + 10))

\* The bytes the answers for the records of recs take.
RECURSIVE AnswerBytes(_)
AnswerBytes(recs) ==
    IF Len(recs) = 0 THEN 0
    ELSE 12 + Len(AnswerFor(recs[1]).rdata) + AnswerBytes(Tail(recs))

\* C28: the answer count of buildDNSResponse is the number of the records
\* it emits, the answers read back from the response are those of the
\* emitted records in the order of the list, the other records leave no
\* trace, and the response is questionEnd bytes and the bytes of the
\* answers long.
C28_AnswersAreEmittedRecords ==
    wire.op = "buildDNSResponse" =>
        LET emitted == SelectSeq(wire.recs, Emitted)
            answers == AnswersFrom(wire.ret, wire.questionEnd)
        IN /\ Uint16(wire.ret, 6) = Len(emitted)
           /\ Len(answers) = Len(emitted)
           /\ \A k \in 1..Len(emitted) : answers[k] = AnswerFor(emitted[k])
           /\ Len(wire.ret) = wire.questionEnd + AnswerBytes(emitted)
           /\ emitted = <<>> => Len(wire.ret) = wire.questionEnd

\* A list of an A record whose value is no address and a CNAME record:
\* one answer, the CNAME.
C28_Witness ==
    /\ wire.op = "buildDNSResponse"
    /\ Len(wire.recs) = 2
    /\ wire.recs[1].Type = TypeA
    /\ wire.recs[1].Value = <<"x">>
    /\ wire.recs[2].Type = TypeCNAME
    /\ Uint16(wire.ret, 6) = 1
    /\ Len(wire.ret) = wire.questionEnd + 12 + 5

\* C29: the response of buildDNSResponse has the ID and the RD bit of the
\* query, the QR, AA and RA bits set, RCODE 0, QDCOUNT 1, NSCOUNT 0 and
\* ARCOUNT 0, and the bytes 12..questionEnd of the query as its question.
C29_ResponseHeader ==
    wire.op = "buildDNSResponse" =>
        /\ At(wire.ret, 0) = At(wire.query, 0)
        /\ At(wire.ret, 1) = At(wire.query, 1)
        /\ At(wire.ret, 2) \div 128 = 1
        /\ (At(wire.ret, 2) \div 4) % 2 = 1
        /\ At(wire.ret, 2) % 2 = At(wire.query, 2) % 2
        /\ At(wire.ret, 3) \div 128 = 1
        /\ At(wire.ret, 3) % 16 = 0
        /\ Uint16(wire.ret, 4) = 1
        /\ Uint16(wire.ret, 8) = 0
        /\ Uint16(wire.ret, 10) = 0
        /\ Slice(wire.ret, 12, wire.questionEnd)
               = Slice(wire.query, 12, wire.questionEnd)

\* A response to the query that announces two questions and an additional
\* record and has bytes after its first question, built with one answer.
C29_Witness ==
    /\ wire.op = "buildDNSResponse"
    /\ Uint16(wire.query, 4) = 2
    /\ Uint16(wire.query, 10) = 1
    /\ Len(wire.query) > wire.questionEnd
    /\ At(wire.query, 2) % 2 = 1
    /\ Uint16(wire.ret, 6) = 1
    /\ Uint16(wire.ret, 4) = 1

\* C30: buildServFail returns questionEnd bytes: the ID and the RD bit of
\* the query, the QR bit set, RCODE 2, QDCOUNT 1, ANCOUNT 0, and the bytes
\* 12..questionEnd of the query as its question.
C30_ServFailMessage ==
    wire.op = "buildServFail" =>
        /\ Len(wire.ret) = wire.questionEnd
        /\ At(wire.ret, 0) = At(wire.query, 0)
        /\ At(wire.ret, 1) = At(wire.query, 1)
        /\ At(wire.ret, 2) % 2 = At(wire.query, 2) % 2
        /\ At(wire.ret, 2) \div 128 = 1
        /\ At(wire.ret, 3) % 16 = 2
        /\ Uint16(wire.ret, 4) = 1
        /\ Uint16(wire.ret, 6) = 0
        /\ Slice(wire.ret, 12, wire.questionEnd)
               = Slice(wire.query, 12, wire.questionEnd)

\* A SERVFAIL for the query with bytes after its first question and the
\* RD bit set.
C30_Witness ==
    /\ wire.op = "buildServFail"
    /\ Len(wire.query) > wire.questionEnd
    /\ At(wire.query, 2) % 2 = 1
    /\ Len(wire.ret) = wire.questionEnd
    /\ At(wire.ret, 2) = 129

----------------------------------------------------------------------------
(* The web server *)

\* The handlers of the routes of the API
APIHandlers == {"handleList", "handleCreate", "handleUpdate", "handleDelete"}

\* C31: with a token configured, a request whose path starts with /api/
\* reaches a handler of the API (and so the store) only if its Authorization
\* header is exactly "Bearer " followed by the token; otherwise it is
\* answered 401 and the store is neither read nor changed; a request to any
\* other path passes through to the mux without a token.
C31_TokenGuardsAPI ==
    [][(web'.n = web.n + 1 /\ web.token # <<>>) =>
          LET api == HasPrefix(web'.path, <<"/", "a", "p", "i", "/">>)
              authorized == web'.auth = <<"B", "e", "a", "r", "e", "r", " ">> \o web.token
          IN /\ (api /\ ~authorized) =>
                    /\ web'.status = 401
                    /\ web'.handler = "requireAuth"
                    /\ web'.call = "none"
                    /\ UNCHANGED storeVars
             /\ web'.handler \in APIHandlers => (api /\ authorized)
             /\ web'.call # "none" => (api /\ authorized)
             /\ (api /\ authorized) =>
                    web'.handler = Route(web'.method, web'.path)
             /\ ~api => /\ web'.handler = Route(web'.method, web'.path)
                        /\ web'.status # 401]_vars

\* A server with a token and a stored record has answered 401 to a request
\* for the list that carried another token.
C31_Witness ==
    /\ web.token = Token
    /\ web.n = 1
    /\ web.method = "GET"
    /\ web.path = <<"/", "a", "p", "i", "/", "r", "e", "c", "o", "r", "d", "s">>
    /\ web.auth = <<"B", "e", "a", "r", "e", "r", " ", "t", "1">>
    /\ web.status = 401
    /\ web.call = "none"
    /\ records # <<>>

----------------------------------------------------------------------------
(* Responses to queries whose name is compressed *)

\* The offsets in resp of the answers that start at p or after it
RECURSIVE AnswerOffsets(_, _)
AnswerOffsets(resp, p) ==
    IF p + 12 > Len(resp) THEN {}
    ELSE {p} \cup AnswerOffsets(resp, p + 12 + Uint16(resp, p + 10))

\* C32: in every response sent for a query the store answers, the name of
\* each answer record, a pointer to offset 12, decodes within the response
\* to the name that was decoded from the query, also when the name of the
\* question is compressed with a pointer to bytes outside the question.
C32_AnswerNameIsQueryName ==
    \A i \in 1..Len(queries) :
        (Stored(queries[i].buf) /\ Handled(i)) =>
            LET resp == queries[i].sent[1]
                questionEnd == Question(queries[i].buf).questionEnd
            IN \A p \in AnswerOffsets(resp, questionEnd) :
                   /\ At(resp, p) = 192
                   /\ At(resp, p + 1) = 12
                   /\ parseDNSName(resp, p).offset = p + 2
                   /\ parseDNSName(resp, p).name = QName(queries[i].buf)

\* C33: whatever the content and the length of a datagram, every index and
\* every slice handleQuery takes of it lies within the datagram, the read
\* of the type after the name and the copy of the question into the
\* answer or the SERVFAIL included: handling a datagram never panics.
C33_HandlingStaysInBounds ==
    wire.op = "handleQuery" =>
        /\ \A a \in wire.accesses :
               0 <= a.lo /\ a.lo <= a.hi /\ a.hi <= Len(wire.buf)
        /\ wire.question.ok => wire.question.questionEnd >= 12

\* A query for the root name that ends with its type and class: the
\* question runs to the last byte of the datagram, and all of it is copied.
C33_Witness ==
    /\ wire.op = "handleQuery"
    /\ wire.buf = Header(1, 1, 1) \o <<0, 0, 1, 0, 1>>
    /\ wire.question.ok
    /\ wire.question.questionEnd = Len(wire.buf)
    /\ Access(13, 15) \in wire.accesses
    /\ Access(12, 17) \in wire.accesses

----------------------------------------------------------------------------
(* Concurrency on the store *)

\* The goroutines inside a critical section of Store.mu: writers between
\* Lock and Unlock, readers between RLock and RUnlock.
Writing == {i \in 1..Len(tasks) :
               tasks[i].pc \in {"locked", "rebuild", "save", "unlock"}}

Reading == {i \in 1..Len(tasks) :
               tasks[i].pc \in {"rlocked", "filter", "runlock"}}

\* The goroutines that have read the store
HaveRead == {i \in 1..Len(tasks) :
                /\ tasks[i].op \in Readers
                /\ tasks[i].pc \in {"filter", "runlock", "respond", "done"}}

\* C34: under any interleaving of List and Resolve with Add, Update and
\* Delete, the index a reader sees is the grouping of the record list by
\* lower-cased domain in list order: no reader is in its critical section
\* while the list has been changed and the index not yet rebuilt, and no
\* writer is in its critical section together with another writer or a
\* reader.
C34_ReadersSeeIndexOfList ==
    /\ Cardinality(Writing) <= 1
    /\ Writing # {} => Reading = {}
    /\ mu.writer = (Writing # {})
    /\ mu.readers = Cardinality(Reading)
    /\ Reading # {} => index = rebuildIndex(records)
    /\ Writing = {} => index = rebuildIndex(records)
    /\ \A i \in HaveRead :
           /\ tasks[i].seen = rebuildIndex(tasks[i].list)
           /\ tasks[i].op = "List" => tasks[i].result = tasks[i].list
           /\ tasks[i].op = "handleQuery" =>
                  tasks[i].all = IndexGet(tasks[i].seen, <<"a">>)

\* A writer has changed the record list and not yet rebuilt the index,
\* while a reader that started before it waits for the lock and another
\* reader has read the store as it was.
C34_Witness ==
    /\ Len(tasks) = 3
    /\ tasks[1].op = "List"
    /\ tasks[1].pc = "done"
    /\ tasks[2].op = "handleQuery"
    /\ tasks[2].pc = "start"
    /\ tasks[3].op = "Delete"
    /\ tasks[3].pc = "rebuild"
    /\ index # rebuildIndex(records)
    /\ tasks[1].result # records

\* The answer a DNS handler sends when Resolve ran on the index idx
AnswerOn(idx) ==
    LET question == Question(LockQuery)
        res == ResolveIn(idx, question.qname, question.qtype)
    IN IF res.auth
       THEN buildDNSResponse(LockQuery, question.questionEnd, res.recs)
       ELSE buildServFail(LockQuery, question.questionEnd)

\* C35: the response of a DNS handler reflects the store at one instant
\* between the receipt of the datagram and the sending of the reply: the
\* handler reads the index in one step, at which no writer is in its
\* critical section and the index is that of the record list, and what it
\* sends is the answer for that index, never a mix of records from before
\* and after a concurrent Add, Update or Delete.
C35_AnswerOfOneStoreState ==
    /\ [][\A i \in 1..Len(tasks) :
              (/\ tasks[i].op = "handleQuery"
               /\ tasks[i].pc = "rlocked"
               /\ tasks'[i].pc = "filter") =>
                  /\ Writing = {}
                  /\ index = rebuildIndex(records)
                  /\ tasks'[i].seen = index
                  /\ UNCHANGED storeVars]_vars
    /\ [](\A i \in 1..Len(tasks) :
              (tasks[i].op = "handleQuery" /\ tasks[i].pc = "done") =>
                  /\ tasks[i].sent = <<AnswerOn(tasks[i].seen)>>
                  /\ tasks[i].seen = rebuildIndex(tasks[i].list))

\* A DNS handler that started before an Add and before a Delete has
\* answered with the one record the store held after both.
C35_Witness ==
    /\ Len(tasks) = 3
    /\ tasks[1].op = "handleQuery"
    /\ tasks[1].pc = "done"
    /\ tasks[2].op = "Add"
    /\ tasks[2].pc = "done"
    /\ tasks[3].op = "Delete"
    /\ tasks[3].pc = "done"
    /\ Len(tasks[1].list) = 1
    /\ tasks[1].list[1].ID = 2
    /\ Uint16(tasks[1].sent[1], 6) = 1

----------------------------------------------------------------------------
(* Handlers run to their end *)

\* The handler of datagram i was started.
Started(i) ==
    i \in 1..Len(queries) /\ queries[i].pc \notin {"select", "dropped"}

\* The handler of datagram i has ended.
Ended(i) == i \in 1..Len(queries) /\ queries[i].pc = "done"

\* C36: every started handler terminates and releases its slot of the
\* semaphore exactly once, on every path: a datagram that fails validation
\* or decoding, an answer from the store, a relayed answer, a SERVFAIL,
\* and a write to a socket already closed; so the number of handlers in
\* flight returns to zero, again and again, with every handler started
\* until then ended; and Close leaves the handlers in flight as they are,
\* to run to their end.
C36_HandlersRunToCompletion ==
    /\ []<>(/\ sem = 0
            /\ InFlight = {}
            /\ \A i \in 1..MaxQueries : Started(i) => Ended(i))
    /\ [](\A i \in 1..Len(queries) :
              /\ queries[i].released = IF queries[i].pc = "done" THEN 1 ELSE 0
              /\ sem = Cardinality(InFlight))
    /\ [][listener'.closeCalled # listener.closeCalled =>
              (queries' = queries /\ sem' = sem)]_vars

\* The handler of a query the store answers has ended and released its
\* slot with the socket closed before its write: nothing was sent.
C36_Witness ==
    /\ Len(queries) = 1
    /\ queries[1].pc = "done"
    /\ queries[1].released = 1
    /\ queries[1].resolved
    /\ Stored(queries[1].buf)
    /\ queries[1].sent = <<>>
    /\ listener.conn = "closed"
    /\ sem = 0

----------------------------------------------------------------------------
(* The limit on compression pointers *)

\* The number of pointers followed from offset to the zero byte that ends
\* the name, seen being the pointers followed so far; -1 when the name
\* runs out of the buffer or comes back to a pointer already followed.
RECURSIVE Jumps(_, _, _)
Jumps(buf, offset, seen) ==
    IF offset >= Len(buf) THEN 0 - 1
    ELSE IF At(buf, offset) = 0 THEN Cardinality(seen)
    ELSE IF At(buf, offset) >= 192
    THEN IF offset + 1 >= Len(buf) \/ offset \in seen THEN 0 - 1
         ELSE Jumps(buf, TargetOf(buf, offset), seen \cup {offset})
    ELSE IF offset + 1 + At(buf, offset) > Len(buf) THEN 0 - 1
    ELSE Jumps(buf, offset + 1 + At(buf, offset), seen)

\* C37: parseDNSName allows up to 10 compression-pointer jumps: a name
\* that is well formed and needs 10 jumps or fewer is decoded, and a name
\* that needs more than 10 jumps gives the error ("", -1).
C37_TenJumpsAllowed ==
    wire.op = "parseDNSName" =>
        LET n == Jumps(wire.buf, wire.offset, {})
        IN /\ n \in 0..10 => wire.ret.offset # -1
           /\ n > 10 => (wire.ret.name = <<>> /\ wire.ret.offset = -1)

----------------------------------------------------------------------------
(* The offset after a name *)

\* The offset after the name of buf at offset as it is written there:
\* after the zero byte that ends it when its labels lead to one, after
\* the first compression pointer when they lead to a pointer.
RECURSIVE AfterName(_, _)
AfterName(buf, offset) ==
    IF At(buf, offset) = 0 THEN offset + 1
    ELSE IF PointerAt(buf, offset) THEN offset + 2
    ELSE AfterName(buf, offset + 1 + At(buf, offset))

\* The name of buf at offset is written without a compression pointer.
RECURSIVE Uncompressed(_, _)
Uncompressed(buf, offset) ==
    IF At(buf, offset) = 0 THEN TRUE
    ELSE IF PointerAt(buf, offset) THEN FALSE
    ELSE Uncompressed(buf, offset + 1 + At(buf, offset))

\* C38: when parseDNSName succeeds, the offset it returns is the offset
\* after the zero byte that ends the name if no pointer was followed, and
\* else the offset after the first pointer met (its offset + 2), wherever
\* that pointer and the pointers after it lead.
C38_NextOffsetAfterFirstPointer ==
    (wire.op = "parseDNSName" /\ wire.ret.offset # -1) =>
        /\ wire.ret.offset = AfterName(wire.buf, wire.offset)
        /\ Uncompressed(wire.buf, wire.offset) =>
               /\ At(wire.buf, wire.ret.offset - 1) = 0
               /\ Jumps(wire.buf, wire.offset, {}) = 0
        /\ ~Uncompressed(wire.buf, wire.offset) =>
               /\ PointerAt(wire.buf, wire.ret.offset - 2)
               /\ Jumps(wire.buf, wire.offset, {}) >= 1

\* The name b.a with three pointers between its labels: the offset
\* returned is the one after the first pointer, at offset 2.
C38_Witness ==
    /\ wire.op = "parseDNSName"
    /\ wire.buf = LabelledChain(3)
    /\ wire.offset = 0
    /\ wire.ret.name = <<"b", ".", "a">>
    /\ wire.ret.offset = 4
    /\ Jumps(wire.buf, wire.offset, {}) = 3

----------------------------------------------------------------------------
(* The encoding of stored names *)

\* For every part that is not empty, its length and its bytes.
RECURSIVE LengthsAndBytes(_)
LengthsAndBytes(parts) ==
    IF Len(parts) = 0 THEN <<>>
    ELSE IF Len(parts[1]) = 0 THEN LengthsAndBytes(Tail(parts))
    ELSE <<Len(parts[1])>> \o BytesOf(parts[1])
             \o LengthsAndBytes(Tail(parts))

\* C39: for every name the store can hold, encodeDNSName returns, for
\* every segment between dots that is not empty, one length byte equal to
\* the number of bytes of the segment and then the bytes of the segment,
\* and after the segments a single zero byte; an empty segment gives
\* nothing, and every call returns bytes.
C39_LengthByteIsSegmentLength ==
    wire.op = "encodeDNSName" =>
        /\ wire.ret = LengthsAndBytes(Split(wire.name, ".")) \o <<0>>
        /\ \A i \in 1..Len(wire.ret) : wire.ret[i] \in 0..255

----------------------------------------------------------------------------
(* The ids of one store *)

\* C40: within one store (until NewStore loads another) the ids Add
\* assigns grow strictly: Add assigns an id no smaller than the counter
\* and leaves the counter above it, whether its save succeeds or fails,
\* and no other call, Delete included, lowers the counter; so an Add right
\* after an Add gets a larger id, and no id is given to a new record again.
C40_AddIdsStrictlyIncrease ==
    [][/\ last'.op = "Add" =>
              (last'.ret.ID >= nextID /\ nextID' > last'.ret.ID)
       /\ last'.op # "NewStore" => nextID' >= nextID
       /\ (last.op = "Add" /\ last'.op = "Add") =>
              last'.ret.ID > last.ret.ID]_vars

\* Add has assigned id 2 with the record of id 1 deleted before it, and
\* its save has failed: the counter is at 3 all the same.
C40_Witness ==
    /\ last.op = "Add"
    /\ last.err # ErrNil
    /\ last.ret.ID = 2
    /\ failures = 1
    /\ Len(records) = 1
    /\ records[1] = last.ret
    /\ nextID = 3

====
